---- MODULE Spec2Model ----
(***************************************************************************)
(* Agent Royale: the off-chain gaming engine (GamingEngine and its game    *)
(* plug-ins Slots, Coinflip, Lotto) and the on-chain settlement contract   *)
(* (ChannelManager with BankrollManager, InsuranceFund, CasinoOwnable).    *)
(*                                                                         *)
(* Amounts are integers.  Where the lotto's ticket price or the contract's *)
(* deposit limits are involved they count units of 0.001 ether (10^15      *)
(* wei), so that toWei('0.001') is 1; in SpecBet and SpecFlip, which       *)
(* involve neither, they count wei.  Wall-clock time of the engine is in   *)
(* milliseconds (Date.now()), block time of the contract in seconds.       *)
(***************************************************************************)
EXTENDS Integers, Sequences, FiniteSets, TLC

VARIABLES
    \* ---- GamingEngine / games (off-chain) ----
    channels,           \* GamingEngine.channels: Map agent -> channel object
    pendingCommits,     \* GamingEngine.pendingCommits: Map <<agent, game>> -> commit
    draws,              \* LottoGame.draws: Map drawId -> draw
    currentDrawId,      \* LottoGame.currentDrawId
    unclaimedWinnings,  \* LottoGame.unclaimedWinnings: Map agent -> amount
    now,                \* Date.now()
    inflight,           \* requests suspended in `await signState(...)`
    signedStates,       \* every state handed to _signState, in order of request
    nextInst,           \* identity of the next channel object to be created
    ticks,              \* number of clock advances so far
    last                \* the request that returned (or threw) most recently

VARIABLES
    \* ---- ChannelManager, BankrollManager, InsuranceFund (on-chain) ----
    cm_channels,         \* ChannelManager.channels: mapping agent -> Channel
    pendingWithdrawals,  \* ChannelManager.pendingWithdrawals
    casino,              \* CasinoOwnable.casino of the ChannelManager
    pendingCasino,       \* CasinoOwnable.pendingCasino
    transferRequestTime, \* CasinoOwnable.transferRequestTime
    paused,              \* Pausable._paused
    totalLocked,         \* BankrollManager.totalLocked
    maxExposure,         \* BankrollManager.maxExposure
    cm_balance,          \* address(ChannelManager).balance
    fund_balance,        \* address(InsuranceFund).balance
    withdrawalRequest,   \* InsuranceFund.withdrawalRequest
    entropyCoinflip,     \* EntropyCoinflip: rounds, sequenceToRound, entropy, roundTtl,
                         \* paused
    blockTimestamp,      \* block.timestamp
    chainTicks,          \* number of advances of block.timestamp so far
    opened,              \* number of channels opened on-chain so far
    lastSettle,          \* what the most recent _settle paid
    accepted,            \* per agent, the states its current dispute has accepted
    lastCall             \* the most recent transaction and how it ended

engineVars == <<channels, pendingCommits, draws, currentDrawId, unclaimedWinnings,
                now, inflight, signedStates, nextInst, ticks, last>>

chainVars == <<cm_channels, pendingWithdrawals, casino, pendingCasino,
               transferRequestTime, paused, totalLocked, maxExposure, cm_balance,
               fund_balance, withdrawalRequest, entropyCoinflip, blockTimestamp,
               chainTicks, opened, lastSettle, accepted, lastCall>>

vars == <<engineVars, chainVars>>

-----------------------------------------------------------------------------
(* Bounds of the model *)

MaxNonce == 2           \* mutations of the first channel object (one fewer for each later one)
MaxInst == 2            \* channel objects ever created
MaxTicks == 1           \* clock advances
MaxInflight == 1        \* requests suspended in the signer at once
MaxOpened == 1          \* channels opened on-chain
MaxChainTicks == 3      \* advances of block.timestamp
\* the same for the run of scenario S1
S1MaxNonce == 1
S1MaxInst == 1
S1MaxOpened == 1
S1MaxChainTicks == 1
\* the same for the run of the betting rounds
BetMaxNonce == 2
BetMaxTicks == 2
\* the same for the run of a coinflip around slots jackpots
FlipMaxNonce == 4
\* the same for the run of a draw with two winners and claims during its signing
RaceMaxNonce == 4
RaceMaxInflight == 2
\* the same for the run of coinflip rounds and closes that wait for the signer together
WaitMaxNonce == 3
WaitMaxInst == 2
WaitMaxInflight == 2
\* the same for the run of channels that are opened on-chain, played and settled
LifeMaxNonce == 2
LifeMaxInst == 2
LifeMaxOpened == 2
LifeMaxChainTicks == 1
\* the same for the run of two agents' escrowed channels
EscrowMaxOpened == 2
EscrowMaxChainTicks == 1
\* the same for the run of closes of tampered channels
TamperMaxNonce == 2
TamperMaxInst == 2
TamperMaxDrift == 1000
\* rounds of EntropyCoinflip
RngMaxChainTicks == 1
TtlMaxChainTicks == 3
\* withdrawals from the InsuranceFund
FundMaxChainTicks == 4
FundMaxBalance == 200
\* the handover of the casino role
OwnMaxOpened == 1
OwnMaxChainTicks == 3
\* accounts that ask for a channel through the A2A handler
OpenMaxAccounts == 51
\* the same for the run of lotto draws
LottoMaxNonce == 2
LottoMaxInst == 2
LottoMaxTicks == 1
\* the same for the run of the bankroll
BankMaxOpened == 2
BankMaxChainTicks == 1

(* Program constants *)

MAX_CHANNELS == 50
\* CasinoA2AHandler: '0.001' and '10' ether, in units of 0.001 ether
A2A_MIN_DEPOSIT == 1
A2A_MAX_DEPOSIT == 10000

COMMIT_TIMEOUT == 300000        \* 5 * 60 * 1000 ms
DRAW_INTERVAL == 21600000       \* 6 * 60 * 60 * 1000 ms
RANGE == 100
PAYOUT_MULTIPLIER == 85
MAX_TICKETS_PER_DRAW == 10
\* toWei('0.001') in the source; the model counts amounts in units of 0.001 ETH
\* wherever the ticket price is involved, so that balances stay small.
TICKET_PRICE == 1
\* ChannelManager / CasinoOwnable; amounts in units of 0.001 ether, times in seconds
CHALLENGE_PERIOD == 86400
MIN_DEPOSIT == 1
MAX_DEPOSIT == 10000
MIN_CHANNEL_DURATION == 3600
INSURANCE_BPS == 1000
OWNERSHIP_TRANSFER_DELAY == 172800
\* EntropyCoinflip: roundTtl = 5 minutes, and the limits of setRoundTtl
DEFAULT_ROUND_TTL == 300
MIN_ROUND_TTL == 30
MAX_ROUND_TTL == 86400
\* InsuranceFund: 3 days
WITHDRAWAL_DELAY == 259200
WEIGHTS == <<30, 25, 20, 15, 10>>
PAYOUTS == <<5, 10, 25, 50, 290>>
SlotsMaxMultiplier == 290
CoinflipMaxMultiplier == 2

(* Inputs *)

Agents == {"a1", "a2"}
EngineAgents == {"a1"}
Games == {"slots", "coinflip"}
AgentDeposits == {6}
CasinoDeposits == {600}
Bets == {0, 1}
Choices == {"heads", "edge"}
\* values of hashBuf.readUInt32BE(k) % 100 that the result hash is allowed to take
RngSamples == {29, 30, 99}
\* the three words hashBuf.readUInt32BE(0), (4), (8) % 100 of one spin
SpinWords == {<<99, 99, 99>>, <<29, 29, 29>>, <<29, 30, 99>>}
PickedNumbers == {0, 100, 101}
TicketCounts == {0, 6, 11}
TimeSteps == {COMMIT_TIMEOUT, DRAW_INTERVAL}
\* values of randomBytes(32) in CommitReveal.commit
Seeds == {"s1", "s2"}
AgentSeeds == {"a1"}
FirstSeed == {"s1"}

\* the betting rounds of SpecBet, in wei: the bets lie on both sides of the bankroll
\* limits floor(850 / 580) = 1 and floor(850 / 4) = 212
BetAgentDeposits == {300}
BetCasinoDeposits == {850}
BetAmounts == {0, 1, 2, 212, 213}
BetChoices == {"heads", "edge"}
BetRngSamples == {29, 30}
LifeRngSamples == {29}
BetSpinWords == {<<99, 99, 99>>, <<29, 30, 99>>}
BetTimeSteps == {COMMIT_TIMEOUT, COMMIT_TIMEOUT + 1}
\* ToNumber of a parameter that is missing from the request or not numeric (NaN).  The
\* model's amounts are integers; this one stands for NaN and is no picked number.
NotANumber == 0 - 1

\* the lotto rounds of SpecLotto: one agent whose channel covers every purchase and one
\* whose deposits lie below the cost of 6 tickets and below the largest payout 85 * 6,
\* or even below the payout 85 * 4 it may have won in an earlier channel; a
\* pickedNumber that wins with hash word 41 and one that is missing from the request
LottoAgents == {"a1", "a2"}
LottoOpenings == {<<"a1", 20, 850>>, <<"a2", 5, 400>>, <<"a2", 5, 300>>}
LottoPicked == {0, 42, 101, NotANumber}
LottoCounts == {0, 4, 6, 11}
LottoWords == {41, 99}

\* the betting rounds of SpecFlip, in wei: a coinflip bet at the bankroll limit
\* 4640 / 4, and slots bets at the limits 4640 / 580, 2328 / 580 and 1172 / 580 that
\* the house's balance allows after each jackpot
FlipAgentDeposits == {1200}
FlipCasinoDeposits == {4640}
FlipAmounts == {1, 1160}
FlipChoices == {"heads", "tails"}
FlipSlotsAmounts == {2, 4, 8}
FlipSpinWords == {<<99, 99, 99>>}

\* EntropyCoinflip: round identifiers (bytes32; 0 is bytes32(0)), the sequence numbers
\* the entropy contract answers a request with (0 when every request path failed),
\* the random numbers it delivers, and who calls
RoundIds == {0, 1, 2}
SequenceNumbers == {0, 1, 2}
RngRandoms == {7, 8}
RngChoices == {0, 2}
RngTtls == {29, 30}
RngSenders == {"house", "mallory", "pyth", "pyth2"}
\* who calls the functions that are for the casino
RngOwners == {"house", "mallory"}
RngEntropies == {"0x0", "pyth2"}
RngTimeSteps == {1, 300}

\* on-chain accounts: the agents, and the callers that are not agents
ChainAgents == {"a1"}
Callers == {"house", "house2", "mallory"}
\* the key of the wallet the engine signs with: the casino the contracts are deployed with
HouseKey == "house"
\* BankrollManager's constructor argument _maxExposure
InitialMaxExposure == 100
OpenValues == {0, 100, 10001}
FundValues == {100}
ChainTimeSteps == {MIN_CHANNEL_DURATION, CHALLENGE_PERIOD}
\* the deposits of scenario S1, 0.01 ether each
S1Deposits == {10}
\* the deposits of two channels that fit under the exposure limit together
EscrowOpenValues == {150}
EscrowFundValues == {50}
\* what a payee's account calls when it receives ether
HookCalls == {"openChannel", "closeChannel", "withdrawPending"}
\* the arguments of BankrollManager.setMaxExposure
MaxExposures == {0, 100, 200}
\* the casino role of the BankrollManager, its own CasinoOwnable, deployed with the
\* house's account
BankrollCasino == HouseKey

-----------------------------------------------------------------------------
(* JavaScript Map helpers *)

EmptyMap == [x \in {} |-> 0]
MapSet(m, k, v) == [x \in (DOMAIN m) \cup {k} |-> IF x = k THEN v ELSE m[x]]
MapDelete(m, k) == [x \in (DOMAIN m) \ {k} |-> m[x]]
MapGet(m, k, d) == IF k \in DOMAIN m THEN m[k] ELSE d
Min(x, y) == IF x < y THEN x ELSE y

-----------------------------------------------------------------------------
(* GamingEngine: channel table *)

\* crypto.createHash('sha256').update(x).digest('hex'): the hash is taken to be free of
\* collisions, so a digest stands for the input it was computed from and for nothing else
sha256(x) == <<"sha256", x>>

\* CommitReveal.commit, `seed` being the 32 bytes randomBytes returned
CommitReveal_commit_Unbound(seed) == [seed |-> seed, commitment |-> sha256("")]

CommitReveal_commit(seed) == [seed |-> seed, commitment |-> sha256(seed)]

\* CommitReveal.verify
CommitReveal_verify(commitment, casinoSeed) == sha256(casinoSeed) = commitment

\* CommitReveal.computeResult; the input string `${casinoSeed}:${agentSeed}:${nonce}`
\* is kept as the three values it is joined from
computeResult(casinoSeed, agentSeed, nonce) ==
    LET hash == sha256(<<casinoSeed, agentSeed, nonce>>)
    IN  [hash |-> hash,
         proof |-> [casinoSeed |-> casinoSeed, agentSeed |-> agentSeed,
                    nonce |-> nonce, resultHash |-> hash]]

\* `proof: { casinoSeed, agentSeed, resultHash: proof.resultHash }` of a reveal's response
RevealProof(casinoSeed, agentSeed, nonce) ==
    [casinoSeed |-> casinoSeed, agentSeed |-> agentSeed,
     resultHash |-> computeResult(casinoSeed, agentSeed, nonce).proof.resultHash]

\* a response without `commitment`, `proof`, balances or `signature`
NoCommitment == <<>>
NoProof == [casinoSeed |-> "none", agentSeed |-> "none", resultHash |-> <<>>]
NoBalances == [agentBalance |-> -1, casinoBalance |-> -1, nonce |-> -1]
NoSignature == [agent |-> "none", agentBalance |-> -1, casinoBalance |-> -1, nonce |-> -1]

\* the fields agentBalance, casinoBalance and nonce a response reads from a channel
BalancesOf(ch) ==
    [agentBalance |-> ch.agentBalance, casinoBalance |-> ch.casinoBalance,
     nonce |-> ch.nonce]

\* GamingEngine._signState: the house's signature over the four values it is given
signState(agent, agentBalance, casinoBalance, nonce) ==
    [agent |-> agent, agentBalance |-> agentBalance, casinoBalance |-> casinoBalance,
     nonce |-> nonce]

NoRequest == [op |-> "none", agent |-> "none", result |-> "none",
              nonceBefore |-> 0, nonceAfter |-> 0,
              commitment |-> NoCommitment, proof |-> NoProof,
              response |-> NoBalances, signature |-> NoSignature]

\* the record of a request that ran its synchronous code on agent a's channel
Returned(op, a, result, n0, n1) ==
    [op |-> op, agent |-> a, result |-> result, nonceBefore |-> n0, nonceAfter |-> n1,
     commitment |-> NoCommitment, proof |-> NoProof,
     response |-> NoBalances, signature |-> NoSignature]

\* the nonce of a's channel, or -1 when a has none
NonceOf(chs, a) == IF a \in DOMAIN chs THEN chs[a].nonce ELSE -1

\* a request that throws before it assigned anything: it leaves no trace in the state
Throw(op, a, err) == UNCHANGED <<channels, pendingCommits, draws, currentDrawId,
                                unclaimedWinnings, now, inflight, signedStates, nextInst,
                                ticks, last>>

StateOf(ch) ==
    [agent |-> ch.agent, agentBalance |-> ch.agentBalance,
     casinoBalance |-> ch.casinoBalance, nonce |-> ch.nonce, inst |-> ch.inst]

\* ids of suspended requests: the smallest one that is free
FreeRid(infl) ==
    CHOOSE r \in 1..(Cardinality(infl) + 1) :
        /\ r \notin {c.rid : c \in infl}
        /\ \A q \in 1..(r - 1) : q \in {c.rid : c \in infl}

\* `await ctx.signState(agent, agentBalance, casinoBalance, nonce)`: the caller is
\* suspended with the arguments it passed, the proof it computed (reveals) and the
\* channel object it holds; `detached` is that object's content once closeChannel has
\* taken it out of the table, and NoBalances while the table still holds it
Suspended(infl, op, a, game, ch, n0, rest) ==
    [rid |-> FreeRid(infl),
     op |-> op, agent |-> a, game |-> game, inst |-> ch.inst,
     nonceBefore |-> n0, sig |-> StateOf(ch), rest |-> rest,
     proof |-> NoProof, detached |-> NoBalances]

\* `this.channels.delete(agentAddress)`: the requests that hold agent a's channel
\* object keep it, with the content it had when it left the table
Detach(infl, a) ==
    IF a \notin DOMAIN channels THEN infl
    ELSE {IF c.agent = a /\ c.detached = NoBalances
          THEN [c EXCEPT !.detached = BalancesOf(channels[a])]
          ELSE c : c \in infl}

\* `channel.agentBalance`, `channel.casinoBalance`, `channel.nonce` as the code after
\* the await reads them from the channel object the request holds
HeldChannel(c) ==
    IF c.detached # NoBalances THEN c.detached ELSE BalancesOf(channels[c.agent])

Engine_openChannel(a, agentDeposit, casinoDeposit) ==
    IF a \in DOMAIN channels
    THEN Throw("open_channel", a, "Channel already exists")
    ELSE /\ channels' = MapSet(channels, a,
                [agent |-> a, agentDeposit |-> agentDeposit, casinoDeposit |-> casinoDeposit,
                 agentBalance |-> agentDeposit, casinoBalance |-> casinoDeposit,
                 nonce |-> 0, inst |-> nextInst])
         /\ nextInst' = nextInst + 1
         /\ last' = Returned("open_channel", a, "ok", -1, 0)
         /\ UNCHANGED <<pendingCommits, draws, currentDrawId, unclaimedWinnings,
                        now, inflight, signedStates, ticks>>

invariantOk(ch) == ch.agentDeposit + ch.casinoDeposit = ch.agentBalance + ch.casinoBalance

\* GamingEngine.getChannelStatus
getChannelStatus(a) ==
    IF a \notin DOMAIN channels THEN [status |-> "not_found"]
    ELSE [status |-> "open",
          agentBalance |-> channels[a].agentBalance,
          casinoBalance |-> channels[a].casinoBalance,
          nonce |-> channels[a].nonce,
          invariantOk |-> (channels[a].agentDeposit + channels[a].casinoDeposit
                             = channels[a].agentBalance + channels[a].casinoBalance)]

\* `ch.agentBalance = ch.agentBalance + 1000000000000000000n` on the channel object in
\* the engine's memory, done between two requests
Tamper(a, amount) ==
    /\ a \in DOMAIN channels
    /\ inflight = {}
    /\ channels' = [channels EXCEPT ![a].agentBalance = @ + amount]
    /\ UNCHANGED <<pendingCommits, draws, currentDrawId, unclaimedWinnings,
                   now, inflight, signedStates, nextInst, ticks, last>>

\* a close that signs whatever the channel holds
Engine_closeChannel_NoCheck(a) ==
    IF a \notin DOMAIN channels
    THEN Throw("close_channel", a, "Channel not found")
    ELSE /\ inflight' = inflight \cup
                {Suspended(inflight, "close_channel", a, "none", channels[a], channels[a].nonce, <<>>)}
         /\ last' = Returned("close_channel", a, "suspended",
                             channels[a].nonce, channels[a].nonce)
         /\ UNCHANGED <<channels, pendingCommits, draws, currentDrawId, unclaimedWinnings,
                        now, signedStates, nextInst, ticks>>

Engine_closeChannel(a) ==
    IF a \notin DOMAIN channels
    THEN Throw("close_channel", a, "Channel not found")
    ELSE IF ~invariantOk(channels[a])
    THEN Throw("close_channel", a, "INVARIANT VIOLATION")
    ELSE /\ inflight' = inflight \cup
                {Suspended(inflight, "close_channel", a, "none", channels[a], channels[a].nonce, <<>>)}
         /\ last' = Returned("close_channel", a, "suspended",
                             channels[a].nonce, channels[a].nonce)
         /\ UNCHANGED <<channels, pendingCommits, draws, currentDrawId, unclaimedWinnings,
                        now, signedStates, nextInst, ticks>>

-----------------------------------------------------------------------------
(* BaseGame.validateBet *)

\* a validation that also turns away the bet that exactly exhausts the bankroll limit
validateBet_Strict(ch, betWei, maxMultiplier) ==
    IF betWei <= 0 THEN "Bet must be positive"
    ELSE IF ch.agentBalance < betWei THEN "Insufficient balance"
    ELSE IF betWei * maxMultiplier * 2 >= ch.casinoBalance THEN "Max bet (bankroll limit)"
    ELSE "ok"

validateBet(ch, betWei, maxMultiplier) ==
    IF betWei <= 0 THEN "Bet must be positive"
    ELSE IF ch.agentBalance < betWei THEN "Insufficient balance"
    ELSE IF betWei * maxMultiplier * 2 > ch.casinoBalance THEN "Max bet (bankroll limit)"
    ELSE "ok"

-----------------------------------------------------------------------------
(* SlotsGame *)

RECURSIVE getSymbolFrom(_, _, _)
getSymbolFrom(rng, i, cumulative) ==
    IF i > Len(WEIGHTS) THEN 0
    ELSE IF rng < cumulative + WEIGHTS[i] THEN i - 1
    ELSE getSymbolFrom(rng, i + 1, cumulative + WEIGHTS[i])

getSymbol(rng) == getSymbolFrom(rng, 1, 0)

SlotsPayout(betWei, r0, r1, r2, casinoBalance) ==
    LET reels == <<getSymbol(r0), getSymbol(r1), getSymbol(r2)>>
        raw == IF reels[1] = reels[2] /\ reels[2] = reels[3]
               THEN betWei * PAYOUTS[reels[1] + 1] ELSE 0
    IN  IF raw > casinoBalance THEN casinoBalance ELSE raw

\* a commit that does not look for a pending commit of the same agent and game
Slots_commit_Overwrite(a, betWei, seed) ==
    IF a \notin DOMAIN channels
    THEN Throw("slots_commit", a, "Channel not found")
    ELSE IF validateBet(channels[a], betWei, SlotsMaxMultiplier) # "ok"
    THEN Throw("slots_commit", a, validateBet(channels[a], betWei, SlotsMaxMultiplier))
    ELSE /\ pendingCommits' = MapSet(pendingCommits, <<a, "slots">>,
                [seed |-> CommitReveal_commit(seed).seed, betWei |-> betWei,
                 choice |-> "none", timestamp |-> now])
         /\ last' = [Returned("slots_commit", a, "ok", channels[a].nonce, channels[a].nonce)
                        EXCEPT !.commitment = CommitReveal_commit(seed).commitment]
         /\ UNCHANGED <<channels, draws, currentDrawId, unclaimedWinnings,
                        now, inflight, signedStates, nextInst, ticks>>

Slots_commit(a, betWei, seed) ==
    IF a \notin DOMAIN channels
    THEN Throw("slots_commit", a, "Channel not found")
    ELSE IF validateBet(channels[a], betWei, SlotsMaxMultiplier) # "ok"
    THEN Throw("slots_commit", a, validateBet(channels[a], betWei, SlotsMaxMultiplier))
    ELSE IF <<a, "slots">> \in DOMAIN pendingCommits
    THEN Throw("slots_commit", a, "Already have a pending")
    ELSE /\ pendingCommits' = MapSet(pendingCommits, <<a, "slots">>,
                [seed |-> CommitReveal_commit(seed).seed, betWei |-> betWei,
                 choice |-> "none", timestamp |-> now])
         /\ last' = [Returned("slots_commit", a, "ok", channels[a].nonce, channels[a].nonce)
                        EXCEPT !.commitment = CommitReveal_commit(seed).commitment]
         /\ UNCHANGED <<channels, draws, currentDrawId, unclaimedWinnings,
                        now, inflight, signedStates, nextInst, ticks>>

\* a resolution that credits the agent's payout without debiting the house
Resolve_NoDebit(op, a, game, betWei, payoutWei) ==
    LET ch == channels[a]
        ch2 == [ch EXCEPT !.agentBalance = ch.agentBalance - betWei + payoutWei,
                          !.casinoBalance = ch.casinoBalance + betWei,
                          !.nonce = ch.nonce + 1]
    IN  /\ channels' = [channels EXCEPT ![a] = ch2]
        /\ \E agentSeed \in AgentSeeds :
              inflight' = inflight \cup
                  {[Suspended(inflight, op, a, game, ch2, ch.nonce, <<>>) EXCEPT
                        !.proof = RevealProof(pendingCommits[<<a, game>>].seed,
                                              agentSeed, ch.nonce)]}
        /\ last' = Returned(op, a, "suspended", ch.nonce, ch2.nonce)
        /\ UNCHANGED <<pendingCommits, draws, currentDrawId, unclaimedWinnings,
                       now, signedStates, nextInst, ticks>>

\* the part of a reveal that both commit-reveal games share: balances, nonce, signer
Resolve(op, a, game, betWei, payoutWei) ==
    LET ch == channels[a]
        ch2 == [ch EXCEPT !.agentBalance = ch.agentBalance - betWei + payoutWei,
                          !.casinoBalance = ch.casinoBalance + betWei - payoutWei,
                          !.nonce = ch.nonce + 1]
    IN  /\ channels' = [channels EXCEPT ![a] = ch2]
        /\ \E agentSeed \in AgentSeeds :
              inflight' = inflight \cup
                  {[Suspended(inflight, op, a, game, ch2, ch.nonce, <<>>) EXCEPT
                        !.proof = RevealProof(pendingCommits[<<a, game>>].seed,
                                              agentSeed, ch.nonce)]}
        /\ last' = Returned(op, a, "suspended", ch.nonce, ch2.nonce)
        /\ UNCHANGED <<pendingCommits, draws, currentDrawId, unclaimedWinnings,
                       now, signedStates, nextInst, ticks>>

\* a reveal that throws and leaves the pending commit in place
ThrowAndKeep(op, a, game, err) ==
    /\ last' = Returned(op, a, err, channels[a].nonce, channels[a].nonce)
    /\ UNCHANGED <<channels, pendingCommits, draws, currentDrawId, unclaimedWinnings,
                   now, inflight, signedStates, nextInst, ticks>>

\* a reveal that throws after deleting the pending commit
ThrowAndClear(op, a, game, err) ==
    /\ pendingCommits' = MapDelete(pendingCommits, <<a, game>>)
    /\ last' = Returned(op, a, err, channels[a].nonce, channels[a].nonce)
    /\ UNCHANGED <<channels, draws, currentDrawId, unclaimedWinnings,
                   now, inflight, signedStates, nextInst, ticks>>

\* a reveal that trusts the balance check made at commit time
Slots_reveal_NoRecheck(a, r0, r1, r2) ==
    IF a \notin DOMAIN channels
    THEN Throw("slots_reveal", a, "Channel not found")
    ELSE IF <<a, "slots">> \notin DOMAIN pendingCommits
    THEN Throw("slots_reveal", a, "No pending slot spin")
    ELSE LET pending == pendingCommits[<<a, "slots">>]
             ch == channels[a]
         IN  IF now - pending.timestamp > COMMIT_TIMEOUT
             THEN ThrowAndClear("slots_reveal", a, "slots", "Commitment expired")
             ELSE Resolve("slots_reveal", a, "slots", pending.betWei,
                          SlotsPayout(pending.betWei, r0, r1, r2, ch.casinoBalance))

Slots_reveal(a, r0, r1, r2) ==
    IF a \notin DOMAIN channels
    THEN Throw("slots_reveal", a, "Channel not found")
    ELSE IF <<a, "slots">> \notin DOMAIN pendingCommits
    THEN Throw("slots_reveal", a, "No pending slot spin")
    ELSE LET pending == pendingCommits[<<a, "slots">>]
             ch == channels[a]
         IN  IF now - pending.timestamp > COMMIT_TIMEOUT
             THEN ThrowAndClear("slots_reveal", a, "slots", "Commitment expired")
             ELSE IF ch.agentBalance < pending.betWei
             THEN ThrowAndClear("slots_reveal", a, "slots", "Insufficient balance at reveal")
             ELSE Resolve("slots_reveal", a, "slots", pending.betWei,
                          SlotsPayout(pending.betWei, r0, r1, r2, ch.casinoBalance))

-----------------------------------------------------------------------------
(* CoinflipGame *)

\* a payout of 1.9 times the bet that is not capped by what the house holds
CoinflipPayout_Uncapped(betWei, won, casinoBalance) ==
    IF ~won THEN 0 ELSE (betWei * 19) \div 10

CoinflipPayout(betWei, won, casinoBalance) ==
    IF ~won THEN 0
    ELSE IF (betWei * 19) \div 10 > casinoBalance + betWei
    THEN casinoBalance + betWei
    ELSE (betWei * 19) \div 10

Coinflip_commit(a, betWei, choice, seed) ==
    IF a \notin DOMAIN channels
    THEN Throw("coinflip_commit", a, "Channel not found")
    ELSE IF choice \notin {"heads", "tails"}
    THEN Throw("coinflip_commit", a, "Choice must be heads or tails")
    ELSE IF validateBet(channels[a], betWei, CoinflipMaxMultiplier) # "ok"
    THEN Throw("coinflip_commit", a, validateBet(channels[a], betWei, CoinflipMaxMultiplier))
    ELSE IF <<a, "coinflip">> \in DOMAIN pendingCommits
    THEN Throw("coinflip_commit", a, "Already have a pending")
    ELSE /\ pendingCommits' = MapSet(pendingCommits, <<a, "coinflip">>,
                [seed |-> CommitReveal_commit(seed).seed, betWei |-> betWei,
                 choice |-> choice, timestamp |-> now])
         /\ last' = [Returned("coinflip_commit", a, "ok", channels[a].nonce, channels[a].nonce)
                        EXCEPT !.commitment = CommitReveal_commit(seed).commitment]
         /\ UNCHANGED <<channels, draws, currentDrawId, unclaimedWinnings,
                        now, inflight, signedStates, nextInst, ticks>>

Coinflip_reveal(a, r0) ==
    IF a \notin DOMAIN channels
    THEN Throw("coinflip_reveal", a, "Channel not found")
    ELSE IF <<a, "coinflip">> \notin DOMAIN pendingCommits
    THEN Throw("coinflip_reveal", a, "No pending coinflip")
    ELSE LET pending == pendingCommits[<<a, "coinflip">>]
             ch == channels[a]
             result == IF r0 % 2 = 0 THEN "heads" ELSE "tails"
         IN  IF now - pending.timestamp > COMMIT_TIMEOUT
             THEN ThrowAndClear("coinflip_reveal", a, "coinflip", "Commitment expired")
             ELSE IF ch.agentBalance < pending.betWei
             THEN ThrowAndClear("coinflip_reveal", a, "coinflip",
                                "Insufficient balance at reveal")
             ELSE Resolve("coinflip_reveal", a, "coinflip", pending.betWei,
                          CoinflipPayout(pending.betWei, result = pending.choice,
                                         ch.casinoBalance))

-----------------------------------------------------------------------------
(* LottoGame *)

\* JavaScript's `x < y` and `x > y`: false whenever an operand converts to NaN
JsLess(x, y) == x # NotANumber /\ x < y
JsGreater(x, y) == x # NotANumber /\ x > y

NewDraw(id, t) ==
    [drawId |-> id, drawTime |-> t + DRAW_INTERVAL, tickets |-> EmptyMap,
     order |-> <<>>, totalPool |-> 0, winningNumber |-> 0, drawn |-> FALSE]

\* `for (i < ticketCount) agentTickets.push(pickedNumber)`
RECURSIVE Push(_, _, _)
Push(tickets, pickedNumber, ticketCount) ==
    IF ticketCount <= 0 THEN tickets
    ELSE Push(Append(tickets, pickedNumber), pickedNumber, ticketCount - 1)

Lotto_buy(a, pickedNumber, ticketCount) ==
    IF a \notin DOMAIN channels
    THEN Throw("lotto_buy", a, "Channel not found")
    ELSE IF JsLess(pickedNumber, 1) \/ JsGreater(pickedNumber, RANGE)
    THEN Throw("lotto_buy", a, "Pick a number between 1 and RANGE")
    ELSE IF ticketCount < 1 \/ ticketCount > MAX_TICKETS_PER_DRAW
    THEN Throw("lotto_buy", a, "Max tickets per draw")
    ELSE IF channels[a].agentBalance < TICKET_PRICE * ticketCount
    THEN Throw("lotto_buy", a, "Insufficient balance")
    ELSE IF TICKET_PRICE * PAYOUT_MULTIPLIER * ticketCount > channels[a].casinoBalance
    THEN Throw("lotto_buy", a, "Casino can't cover max payout")
    ELSE
    LET ch == channels[a]
        costWei == TICKET_PRICE * ticketCount
        draw == draws[currentDrawId]
        \* draw.tickets.set(channel.agent, []) when the agent has no entry yet
        draw1 == IF a \in DOMAIN draw.tickets THEN draw
                 ELSE [draw EXCEPT !.tickets = MapSet(draw.tickets, a, <<>>),
                                   !.order = Append(draw.order, a)]
        agentTickets == draw1.tickets[a]
        ch2 == [ch EXCEPT !.agentBalance = ch.agentBalance - costWei,
                          !.casinoBalance = ch.casinoBalance + costWei,
                          !.nonce = ch.nonce + 1]
        draw2 == [draw1 EXCEPT !.tickets[a] = Push(agentTickets, pickedNumber, ticketCount),
                               !.totalPool = draw1.totalPool + costWei]
    IN  IF Len(agentTickets) + ticketCount > MAX_TICKETS_PER_DRAW
        THEN /\ draws' = [draws EXCEPT ![currentDrawId] = draw1]
             /\ last' = Returned("lotto_buy", a, "Already have tickets this draw",
                                 ch.nonce, ch.nonce)
             /\ UNCHANGED <<channels, pendingCommits, currentDrawId, unclaimedWinnings,
                            now, inflight, signedStates, nextInst, ticks>>
        ELSE /\ channels' = [channels EXCEPT ![a] = ch2]
             /\ draws' = [draws EXCEPT ![currentDrawId] = draw2]
             /\ inflight' = inflight \cup
                    {Suspended(inflight, "lotto_buy", a, "lotto", ch2, ch.nonce, <<>>)}
             /\ last' = Returned("lotto_buy", a, "suspended", ch.nonce, ch2.nonce)
             /\ UNCHANGED <<pendingCommits, currentDrawId, unclaimedWinnings,
                            now, signedStates, nextInst, ticks>>

\* `remaining > 0n ? unclaimedWinnings.set(agent, remaining) : unclaimedWinnings.delete(agent)`
SetRemaining(uncl, a, remaining) ==
    IF remaining > 0 THEN MapSet(uncl, a, remaining) ELSE MapDelete(uncl, a)

\* a claim that forgets what the house could not pay
Lotto_claim_ClearAll(a) ==
    IF a \notin DOMAIN channels
    THEN Throw("lotto_claim", a, "Channel not found")
    ELSE
    LET ch == channels[a]
        unclaimed == MapGet(unclaimedWinnings, a, 0)
        claimable == IF unclaimed > ch.casinoBalance THEN ch.casinoBalance ELSE unclaimed
        ch2 == [ch EXCEPT !.agentBalance = ch.agentBalance + claimable,
                          !.casinoBalance = ch.casinoBalance - claimable,
                          !.nonce = ch.nonce + 1]
    IN  IF unclaimed = 0
        THEN Throw("lotto_claim", a, "No unclaimed winnings")
        ELSE /\ channels' = [channels EXCEPT ![a] = ch2]
             /\ unclaimedWinnings' = MapDelete(unclaimedWinnings, a)
             /\ inflight' = inflight \cup
                    {Suspended(inflight, "lotto_claim", a, "lotto", ch2, ch.nonce, <<>>)}
             /\ last' = Returned("lotto_claim", a, "suspended", ch.nonce, ch2.nonce)
             /\ UNCHANGED <<pendingCommits, draws, currentDrawId,
                            now, signedStates, nextInst, ticks>>

Lotto_claim(a) ==
    IF a \notin DOMAIN channels
    THEN Throw("lotto_claim", a, "Channel not found")
    ELSE
    LET ch == channels[a]
        unclaimed == MapGet(unclaimedWinnings, a, 0)
        claimable == IF unclaimed > ch.casinoBalance THEN ch.casinoBalance ELSE unclaimed
        ch2 == [ch EXCEPT !.agentBalance = ch.agentBalance + claimable,
                          !.casinoBalance = ch.casinoBalance - claimable,
                          !.nonce = ch.nonce + 1]
    IN  IF unclaimed = 0
        THEN Throw("lotto_claim", a, "No unclaimed winnings")
        ELSE /\ channels' = [channels EXCEPT ![a] = ch2]
             /\ unclaimedWinnings' = SetRemaining(unclaimedWinnings, a, unclaimed - claimable)
             /\ inflight' = inflight \cup
                    {Suspended(inflight, "lotto_claim", a, "lotto", ch2, ch.nonce, <<>>)}
             /\ last' = Returned("lotto_claim", a, "suspended", ch.nonce, ch2.nonce)
             /\ UNCHANGED <<pendingCommits, draws, currentDrawId,
                            now, signedStates, nextInst, ticks>>

\* tickets.filter(t => t === winningNumber).length
MatchCount(tickets, winningNumber) ==
    Cardinality({i \in 1..Len(tickets) : tickets[i] = winningNumber})

\* the winners of a draw, in the iteration order of draw.tickets; the scheduler reads
\* payout back with toWei(toEth(payoutWei)), which formatEther/parseEther make exact
RECURSIVE Winners(_, _, _)
Winners(order, tickets, winningNumber) ==
    IF order = <<>> THEN <<>>
    ELSE LET a == Head(order)
             m == MatchCount(tickets[a], winningNumber)
             tail == Winners(Tail(order), tickets, winningNumber)
         IN  IF m > 0
             THEN <<[agent |-> a, tickets |-> m,
                     payout |-> TICKET_PRICE * PAYOUT_MULTIPLIER * m]>> \o tail
             ELSE tail

\* unclaimedWinnings after `existing + payoutWei` for every winner
RECURSIVE Accrue(_, _)
Accrue(uncl, winners) ==
    IF winners = <<>> THEN uncl
    ELSE Accrue(MapSet(uncl, Head(winners).agent,
                       MapGet(uncl, Head(winners).agent, 0) + Head(winners).payout),
                Tail(winners))

\* LottoGame.executeDraw without its drawn check: a drawn draw is drawn again
Lotto_executeDraw_Again(drawId, word) ==
    IF drawId \notin DOMAIN draws
    THEN Throw("executeDraw", "none", "Draw not found")
    ELSE
    LET draw == draws[drawId]
        winningNumber == (word % RANGE) + 1
        winners == Winners(draw.order, draw.tickets, winningNumber)
    IN  /\ draws' = MapSet([draws EXCEPT ![drawId].winningNumber = winningNumber,
                                         ![drawId].drawn = TRUE],
                           currentDrawId + 1, NewDraw(currentDrawId + 1, now))
        /\ currentDrawId' = currentDrawId + 1
        /\ unclaimedWinnings' = Accrue(unclaimedWinnings, winners)
        /\ last' = Returned("executeDraw", "none", "ok", -1, -1)
        /\ UNCHANGED <<channels, pendingCommits, now, inflight, signedStates,
                       nextInst, ticks>>

\* LottoGame.executeDraw by itself, as the scheduler calls it before it turns to the
\* winners; word is hashBuf.readUInt32BE(0) of the draw's result hash
Lotto_executeDraw(drawId, word) ==
    IF drawId \notin DOMAIN draws
    THEN Throw("executeDraw", "none", "Draw not found")
    ELSE IF draws[drawId].drawn
    THEN Throw("executeDraw", "none", "Draw already executed")
    ELSE
    LET draw == draws[drawId]
        winningNumber == (word % RANGE) + 1
        winners == Winners(draw.order, draw.tickets, winningNumber)
    IN  /\ draws' = MapSet([draws EXCEPT ![drawId].winningNumber = winningNumber,
                                         ![drawId].drawn = TRUE],
                           currentDrawId + 1, NewDraw(currentDrawId + 1, now))
        /\ currentDrawId' = currentDrawId + 1
        /\ unclaimedWinnings' = Accrue(unclaimedWinnings, winners)
        /\ last' = Returned("executeDraw", "none", "ok", -1, -1)
        /\ UNCHANGED <<channels, pendingCommits, now, inflight, signedStates,
                       nextInst, ticks>>

getPendingDraws == {d \in DOMAIN draws : ~draws[d].drawn /\ now >= draws[d].drawTime}

\* LottoGame.applyWinnings up to its await
ApplyChannel(ch, payoutWei) ==
    LET cappedPayout == IF payoutWei > ch.casinoBalance THEN ch.casinoBalance ELSE payoutWei
    IN  [ch EXCEPT !.agentBalance = ch.agentBalance + cappedPayout,
                   !.casinoBalance = ch.casinoBalance - cappedPayout,
                   !.nonce = ch.nonce + 1]

ApplyUnclaimed(uncl, ch, payoutWei) ==
    LET cappedPayout == IF payoutWei > ch.casinoBalance THEN ch.casinoBalance ELSE payoutWei
        unclaimed == MapGet(uncl, ch.agent, 0)
    IN  IF unclaimed >= cappedPayout
        THEN SetRemaining(uncl, ch.agent, unclaimed - cappedPayout)
        ELSE uncl

\* `for (const winner of drawResult.winners)`: winners whose channel is gone are skipped
RECURSIVE SkipClosed(_, _)
SkipClosed(winners, chs) ==
    IF winners = <<>> THEN <<>>
    ELSE IF Head(winners).agent \in DOMAIN chs THEN winners
    ELSE SkipClosed(Tail(winners), chs)

\* the loop over the winners, entered with `winners` left, unclaimed winnings uncl and
\* the other suspended requests infl: it runs to the next await of applyWinnings, or
\* to its end
ApplyLoop(winners, uncl, infl) ==
    LET ws == SkipClosed(winners, channels)
    IN  IF ws = <<>>
        THEN /\ unclaimedWinnings' = uncl
             /\ inflight' = infl
             /\ UNCHANGED channels
        ELSE LET w == Head(ws)
                 ch == channels[w.agent]
                 ch2 == ApplyChannel(ch, w.payout)
             IN  /\ channels' = [channels EXCEPT ![w.agent] = ch2]
                 /\ unclaimedWinnings' = ApplyUnclaimed(uncl, ch, w.payout)
                 /\ inflight' = infl \cup
                        {Suspended(infl, "applyWinnings", w.agent, "lotto", ch2, ch.nonce,
                                   Tail(ws))}

\* GamingEngine.runScheduledTasks with LottoGame.executeDraw; word is
\* hashBuf.readUInt32BE(0) of the draw's result hash
Engine_runScheduledTasks(word) ==
    IF getPendingDraws = {}
    THEN Throw("runScheduledTasks", "none", "nothing pending")
    ELSE
    LET drawId == CHOOSE d \in getPendingDraws : \A e \in getPendingDraws : d <= e
        draw == draws[drawId]
        winningNumber == (word % RANGE) + 1
        winners == Winners(draw.order, draw.tickets, winningNumber)
    IN  /\ draws' = MapSet([draws EXCEPT ![drawId].winningNumber = winningNumber,
                                         ![drawId].drawn = TRUE],
                           currentDrawId + 1, NewDraw(currentDrawId + 1, now))
        /\ currentDrawId' = currentDrawId + 1
        /\ ApplyLoop(winners, Accrue(unclaimedWinnings, winners), inflight)
        /\ last' = Returned("executeDraw", "none", "ok", -1, -1)
        /\ UNCHANGED <<pendingCommits, now, signedStates, nextInst, ticks>>

-----------------------------------------------------------------------------
(* The signer answers a suspended request: the code after the await runs *)

SignReturn(c, ok) ==
    /\ c \in inflight
    /\ IF ~ok
       THEN \* signTypedData rejected: the request throws where it awaited
            /\ last' = Returned(c.op, c.agent, "Signer failed", c.nonceBefore, c.sig.nonce)
            /\ inflight' = inflight \ {c}
            /\ UNCHANGED <<channels, pendingCommits, draws, currentDrawId,
                           unclaimedWinnings, now, signedStates, nextInst, ticks>>
       ELSE /\ last' = [Returned(c.op, c.agent, "ok", c.nonceBefore, c.sig.nonce) EXCEPT
                            !.response = HeldChannel(c),
                            !.signature = signState(c.sig.agent, c.sig.agentBalance,
                                                    c.sig.casinoBalance, c.sig.nonce),
                            !.proof = c.proof]
            /\ signedStates' = signedStates \cup {c.sig}
            /\ CASE c.op \in {"slots_reveal", "coinflip_reveal"} ->
                      /\ pendingCommits' = MapDelete(pendingCommits, <<c.agent, c.game>>)
                      /\ inflight' = inflight \ {c}
                      /\ UNCHANGED <<channels, unclaimedWinnings>>
                 [] c.op = "close_channel" ->
                      /\ channels' = MapDelete(channels, c.agent)
                      /\ inflight' = Detach(inflight \ {c}, c.agent)
                      /\ UNCHANGED <<pendingCommits, unclaimedWinnings>>
                 [] c.op = "applyWinnings" ->
                      /\ ApplyLoop(c.rest, unclaimedWinnings, inflight \ {c})
                      /\ UNCHANGED pendingCommits
                 [] OTHER ->
                      /\ inflight' = inflight \ {c}
                      /\ UNCHANGED <<channels, pendingCommits, unclaimedWinnings>>
            /\ UNCHANGED <<draws, currentDrawId, now, nextInst, ticks>>

Tick(d) ==
    /\ now' = now + d
    /\ ticks' = ticks + 1
    /\ UNCHANGED <<channels, pendingCommits, draws, currentDrawId, unclaimedWinnings,
                   inflight, signedStates, nextInst, last>>

-----------------------------------------------------------------------------
(* ChannelManager (with BankrollManager, InsuranceFund and CasinoOwnable) *)

ZeroAddress == "0x0"
Accounts == Agents \cup Callers

\* `delete channels[agent]`, and the value of a mapping slot never written
NoChannel ==
    [agentDeposit |-> 0, casinoDeposit |-> 0, agentBalance |-> 0, casinoBalance |-> 0,
     nonce |-> 0, openedAt |-> 0, disputeDeadline |-> 0, state |-> "None"]

\* the arguments (agentBalance, casinoBalance, nonce) of a call
St(agentBalance, casinoBalance, nonce) ==
    [agentBalance |-> agentBalance, casinoBalance |-> casinoBalance, nonce |-> nonce]

\* _hashTypedDataV4(keccak256(abi.encode(CHANNEL_STATE_TYPEHASH, agent, agentBalance,
\* casinoBalance, nonce))): the hash is taken to be free of collisions, so the digest
\* stands for the four values it was computed from
Digest(agent, agentBalance, casinoBalance, nonce) ==
    <<agent, agentBalance, casinoBalance, nonce>>

\* the signature the holder of `key` makes over a digest
SignedBy(key, agent, agentBalance, casinoBalance, nonce) ==
    [key |-> key, digest |-> Digest(agent, agentBalance, casinoBalance, nonce)]

\* ECDSA.recover: the signing account when the signature was made over this digest,
\* and otherwise an address that belongs to nobody
recover(digest, signature) ==
    IF signature.digest = digest THEN signature.key ELSE "nobody"

NoPresentation == [st |-> St(0, 0, -1), sig |-> [key |-> "none", digest |-> <<>>]]

NoCall == [op |-> "none", sender |-> "none", agent |-> "none",
           st |-> NoPresentation.st, sig |-> NoPresentation.sig, result |-> "none"]

\* the zero value of EntropyCoinflip.rounds[roundId]
NoRound == [roundId |-> 0, agent |-> ZeroAddress, choice |-> 0, sequenceNumber |-> 0,
            entropyRandom |-> 0, requestedAt |-> 0, fulfilledAt |-> 0, state |-> "None"]

\* the zero value of InsuranceFund.withdrawalRequest
NoWithdrawal == [amount |-> 0, to |-> ZeroAddress, requestTime |-> 0]

NoSettle == [agent |-> "none", agentDeposit |-> 0, casinoDeposit |-> 0,
             agentPayout |-> 0, casinoPayout |-> 0,
             sentAgent |-> 0, creditedAgent |-> 0,
             sentCasino |-> 0, creditedCasino |-> 0, sentInsurance |-> 0]

chainState == <<cm_channels, pendingWithdrawals, casino, pendingCasino,
                transferRequestTime, paused, totalLocked, maxExposure, cm_balance,
                fund_balance, withdrawalRequest, entropyCoinflip, blockTimestamp,
                chainTicks, opened, lastSettle, accepted>>

\* a call that reverts: every write of the transaction is undone
Revert(op, sender, agent, p, err) ==
    /\ lastCall' = [op |-> op, sender |-> sender, agent |-> agent,
                    st |-> p.st, sig |-> p.sig, result |-> err]
    /\ UNCHANGED chainState

\* a call to the InsuranceFund that returns
FundCalled(op, sender) ==
    /\ lastCall' = [op |-> op, sender |-> sender, agent |-> "none",
                    st |-> NoPresentation.st, sig |-> NoPresentation.sig, result |-> "ok"]
    /\ UNCHANGED entropyCoinflip

\* a call to EntropyCoinflip that returns
CoinflipCalled(op, sender) ==
    /\ lastCall' = [op |-> op, sender |-> sender, agent |-> "none",
                    st |-> NoPresentation.st, sig |-> NoPresentation.sig, result |-> "ok"]
    /\ UNCHANGED <<cm_channels, pendingWithdrawals, casino, pendingCasino,
                   transferRequestTime, paused, totalLocked, maxExposure, cm_balance,
                   fund_balance, withdrawalRequest, blockTimestamp, chainTicks, opened,
                   lastSettle, accepted>>

\* a call to the ChannelManager that returns; no call of the ChannelManager reaches
\* the withdrawal request of the InsuranceFund
Called(op, sender, agent, p) ==
    /\ lastCall' = [op |-> op, sender |-> sender, agent |-> agent,
                    st |-> p.st, sig |-> p.sig, result |-> "ok"]
    /\ UNCHANGED <<withdrawalRequest, entropyCoinflip>>

\* a check that takes any well-formed signature over the presented values
verifyCasinoSig_AnySigner(agent, agentBalance, casinoBalance, nonce, signature) ==
    recover(Digest(agent, agentBalance, casinoBalance, nonce), signature) # "nobody"

verifyCasinoSig(agent, agentBalance, casinoBalance, nonce, signature) ==
    recover(Digest(agent, agentBalance, casinoBalance, nonce), signature) = casino

\* a check that lets every pair of balances through
checkBalanceInvariant_Skip(ch, agentBalance, casinoBalance) ==
    agentBalance >= 0 /\ casinoBalance >= 0

checkBalanceInvariant(ch, agentBalance, casinoBalance) ==
    agentBalance + casinoBalance = ch.agentDeposit + ch.casinoDeposit

\* ---- openChannel ----
openChannel(sender, value) ==
    IF paused
    THEN Revert("openChannel", sender, sender, NoPresentation, "EnforcedPause")
    ELSE IF value < MIN_DEPOSIT \/ value > MAX_DEPOSIT
    THEN Revert("openChannel", sender, sender, NoPresentation, "InvalidDeposit")
    ELSE IF cm_channels[sender].state # "None"
    THEN Revert("openChannel", sender, sender, NoPresentation, "ChannelExists")
    ELSE /\ cm_channels' = [cm_channels EXCEPT ![sender] =
                [agentDeposit |-> value, casinoDeposit |-> 0,
                 agentBalance |-> value, casinoBalance |-> 0,
                 nonce |-> 0, openedAt |-> blockTimestamp, disputeDeadline |-> 0,
                 state |-> "Open"]]
         /\ cm_balance' = cm_balance + value
         /\ opened' = opened + 1
         /\ Called("openChannel", sender, sender, NoPresentation)
         /\ UNCHANGED <<pendingWithdrawals, casino, pendingCasino, transferRequestTime,
                        paused, totalLocked, maxExposure, fund_balance, blockTimestamp,
                        chainTicks, lastSettle, accepted>>

\* ---- fundCasinoSide, with BankrollManager.lockCollateral ----
\* a funding that takes the deposit without locking it in the BankrollManager
fundCasinoSide_NoLock(sender, agent, value) ==
    IF sender # casino
    THEN Revert("fundCasinoSide", sender, agent, NoPresentation, "NotCasino")
    ELSE IF cm_channels[agent].state # "Open"
    THEN Revert("fundCasinoSide", sender, agent, NoPresentation, "ChannelNotOpen")
    ELSE /\ cm_channels' = [cm_channels EXCEPT
                ![agent].casinoDeposit = cm_channels[agent].casinoDeposit + value,
                ![agent].casinoBalance = cm_channels[agent].casinoBalance + value]
         /\ cm_balance' = cm_balance + value
         /\ Called("fundCasinoSide", sender, agent, NoPresentation)
         /\ UNCHANGED <<pendingWithdrawals, casino, pendingCasino, transferRequestTime,
                        paused, totalLocked, maxExposure, fund_balance, blockTimestamp,
                        chainTicks, opened, lastSettle, accepted>>

fundCasinoSide(sender, agent, value) ==
    IF sender # casino
    THEN Revert("fundCasinoSide", sender, agent, NoPresentation, "NotCasino")
    ELSE IF cm_channels[agent].state # "Open"
    THEN Revert("fundCasinoSide", sender, agent, NoPresentation, "ChannelNotOpen")
    ELSE IF totalLocked + value > maxExposure
    THEN Revert("fundCasinoSide", sender, agent, NoPresentation, "ExposureLimitReached")
    ELSE /\ totalLocked' = totalLocked + value
         /\ cm_channels' = [cm_channels EXCEPT
                ![agent].casinoDeposit = cm_channels[agent].casinoDeposit + value,
                ![agent].casinoBalance = cm_channels[agent].casinoBalance + value]
         /\ cm_balance' = cm_balance + value
         /\ Called("fundCasinoSide", sender, agent, NoPresentation)
         /\ UNCHANGED <<pendingWithdrawals, casino, pendingCasino, transferRequestTime,
                        paused, maxExposure, fund_balance, blockTimestamp, chainTicks,
                        opened, lastSettle, accepted>>

\* ---- _settle ----
\* a skim taken from the casino's whole payout instead of its profit
insuranceOf_Gross(casinoPayout, casinoDeposit) ==
    (casinoPayout * INSURANCE_BPS) \div 10000

\* the insurance skim: 10% of the casino's profit
insuranceOf(casinoPayout, casinoDeposit) ==
    IF casinoPayout > casinoDeposit
    THEN ((casinoPayout - casinoDeposit) * INSURANCE_BPS) \div 10000
    ELSE 0

\* BankrollManager.unlockCollateral would revert
settleReverts(agent) == cm_channels[agent].casinoDeposit > totalLocked

\* a settlement that pays and leaves the channel in the table
settle_KeepChannel(agent, agentPayout, casinoPayout, s1, s2) ==
    LET ch == cm_channels[agent]
        casinoDeposit == ch.casinoDeposit
        insuranceAmount == insuranceOf(casinoPayout, casinoDeposit)
        casinoNet == casinoPayout - insuranceAmount
        agentSent == IF agentPayout > 0 /\ s1 THEN agentPayout ELSE 0
        agentCredit == IF agentPayout > 0 /\ ~s1 THEN agentPayout ELSE 0
        casinoSent == IF casinoNet > 0 /\ s2 THEN casinoNet ELSE 0
        casinoCredit == IF casinoNet > 0 /\ ~s2 THEN casinoNet ELSE 0
        pw1 == [pendingWithdrawals EXCEPT ![agent] = pendingWithdrawals[agent] + agentCredit]
    IN  /\ totalLocked' = IF casinoDeposit > 0 THEN totalLocked - casinoDeposit
                          ELSE totalLocked
        /\ cm_channels' = cm_channels
        /\ fund_balance' = fund_balance + insuranceAmount
        /\ pendingWithdrawals' = [pw1 EXCEPT ![casino] = pw1[casino] + casinoCredit]
        /\ cm_balance' = cm_balance - insuranceAmount - agentSent - casinoSent
        /\ lastSettle' = [agent |-> agent,
                          agentDeposit |-> ch.agentDeposit, casinoDeposit |-> casinoDeposit,
                          agentPayout |-> agentPayout, casinoPayout |-> casinoPayout,
                          sentAgent |-> agentSent, creditedAgent |-> agentCredit,
                          sentCasino |-> casinoSent, creditedCasino |-> casinoCredit,
                          sentInsurance |-> insuranceAmount]

\* s1, s2: whether the agent's and the casino's account accept the transfer
settle(agent, agentPayout, casinoPayout, s1, s2) ==
    LET ch == cm_channels[agent]
        casinoDeposit == ch.casinoDeposit
        insuranceAmount == insuranceOf(casinoPayout, casinoDeposit)
        casinoNet == casinoPayout - insuranceAmount
        agentSent == IF agentPayout > 0 /\ s1 THEN agentPayout ELSE 0
        agentCredit == IF agentPayout > 0 /\ ~s1 THEN agentPayout ELSE 0
        casinoSent == IF casinoNet > 0 /\ s2 THEN casinoNet ELSE 0
        casinoCredit == IF casinoNet > 0 /\ ~s2 THEN casinoNet ELSE 0
        pw1 == [pendingWithdrawals EXCEPT ![agent] = pendingWithdrawals[agent] + agentCredit]
    IN  /\ totalLocked' = IF casinoDeposit > 0 THEN totalLocked - casinoDeposit
                          ELSE totalLocked
        /\ cm_channels' = [cm_channels EXCEPT ![agent] = NoChannel]
        /\ fund_balance' = fund_balance + insuranceAmount
        /\ pendingWithdrawals' = [pw1 EXCEPT ![casino] = pw1[casino] + casinoCredit]
        /\ cm_balance' = cm_balance - insuranceAmount - agentSent - casinoSent
        /\ lastSettle' = [agent |-> agent,
                          agentDeposit |-> ch.agentDeposit, casinoDeposit |-> casinoDeposit,
                          agentPayout |-> agentPayout, casinoPayout |-> casinoPayout,
                          sentAgent |-> agentSent, creditedAgent |-> agentCredit,
                          sentCasino |-> casinoSent, creditedCasino |-> casinoCredit,
                          sentInsurance |-> insuranceAmount]

\* the functions that carry the nonReentrant modifier
nonReentrant(f) == f \in {"closeChannel", "resolveChallenge", "emergencyExit",
                          "withdrawPending"}

\* openChannel as the agent's account calls it from its receive function while _settle
\* pays it: the channel is deleted by then, and the guard is the one of openChannel
openChannelFromHook(value) ==
    /\ ~paused
    /\ value >= MIN_DEPOSIT /\ value <= MAX_DEPOSIT

\* _settle with an agent whose account, when it is paid, calls function f of the
\* ChannelManager (openChannel with `value`) and accepts the payment if and only if
\* that call returned; s2: whether the casino's account accepts its transfer
settleReentered(agent, agentPayout, casinoPayout, f, value, s2) ==
    IF agentPayout = 0 \/ nonReentrant(f) \/ f # "openChannel"
          \/ ~openChannelFromHook(value)
    THEN \* no call to the agent, or the inner call reverts: the transfer fails
         settle(agent, agentPayout, casinoPayout, FALSE, s2) /\ opened' = opened
    ELSE LET ch == cm_channels[agent]
             casinoDeposit == ch.casinoDeposit
             insuranceAmount == insuranceOf(casinoPayout, casinoDeposit)
             casinoNet == casinoPayout - insuranceAmount
             casinoSent == IF casinoNet > 0 /\ s2 THEN casinoNet ELSE 0
             casinoCredit == IF casinoNet > 0 /\ ~s2 THEN casinoNet ELSE 0
         IN  /\ totalLocked' = IF casinoDeposit > 0 THEN totalLocked - casinoDeposit
                               ELSE totalLocked
             /\ cm_channels' = [cm_channels EXCEPT ![agent] =
                    [agentDeposit |-> value, casinoDeposit |-> 0,
                     agentBalance |-> value, casinoBalance |-> 0,
                     nonce |-> 0, openedAt |-> blockTimestamp, disputeDeadline |-> 0,
                     state |-> "Open"]]
             /\ opened' = opened + 1
             /\ fund_balance' = fund_balance + insuranceAmount
             /\ pendingWithdrawals' = [pendingWithdrawals EXCEPT
                                          ![casino] = pendingWithdrawals[casino] + casinoCredit]
             /\ cm_balance' = cm_balance - insuranceAmount - agentPayout + value - casinoSent
             /\ lastSettle' = [agent |-> agent,
                               agentDeposit |-> ch.agentDeposit,
                               casinoDeposit |-> casinoDeposit,
                               agentPayout |-> agentPayout, casinoPayout |-> casinoPayout,
                               sentAgent |-> agentPayout, creditedAgent |-> 0,
                               sentCasino |-> casinoSent, creditedCasino |-> casinoCredit,
                               sentInsurance |-> insuranceAmount]

\* ---- closeChannel ----
closeChannelError(sender, p) ==
    LET ch == cm_channels[sender]
    IN  IF ch.state # "Open" THEN "ChannelNotOpen"
        ELSE IF p.st.nonce <= ch.nonce THEN "StaleNonce"
        ELSE IF ~checkBalanceInvariant(ch, p.st.agentBalance, p.st.casinoBalance)
        THEN "BalanceMismatch"
        ELSE IF ~verifyCasinoSig(sender, p.st.agentBalance, p.st.casinoBalance,
                                 p.st.nonce, p.sig)
        THEN "InvalidSignature"
        ELSE IF settleReverts(sender) THEN "InsufficientLocked"
        ELSE "ok"

closeChannel(sender, p, s1, s2) ==
    IF closeChannelError(sender, p) # "ok"
    THEN Revert("closeChannel", sender, sender, p, closeChannelError(sender, p))
    ELSE /\ settle(sender, p.st.agentBalance, p.st.casinoBalance, s1, s2)
         /\ Called("closeChannel", sender, sender, p)
         /\ UNCHANGED <<casino, pendingCasino, transferRequestTime, paused, maxExposure,
                        blockTimestamp, chainTicks, opened, accepted>>

\* ---- startChallenge ----
startChallengeError(sender, p) ==
    LET ch == cm_channels[sender]
    IN  IF ch.state # "Open" THEN "ChannelNotOpen"
        ELSE IF p.st.nonce <= ch.nonce THEN "StaleNonce"
        ELSE IF ~checkBalanceInvariant(ch, p.st.agentBalance, p.st.casinoBalance)
        THEN "BalanceMismatch"
        ELSE IF ~verifyCasinoSig(sender, p.st.agentBalance, p.st.casinoBalance,
                                 p.st.nonce, p.sig)
        THEN "InvalidSignature"
        ELSE "ok"

startChallenge(sender, p) ==
    IF startChallengeError(sender, p) # "ok"
    THEN Revert("startChallenge", sender, sender, p, startChallengeError(sender, p))
    ELSE /\ cm_channels' = [cm_channels EXCEPT
                ![sender].agentBalance = p.st.agentBalance,
                ![sender].casinoBalance = p.st.casinoBalance,
                ![sender].nonce = p.st.nonce,
                ![sender].state = "Disputed",
                ![sender].disputeDeadline = blockTimestamp + CHALLENGE_PERIOD]
         /\ accepted' = [accepted EXCEPT ![sender] = {p.st}]
         /\ Called("startChallenge", sender, sender, p)
         /\ UNCHANGED <<pendingWithdrawals, casino, pendingCasino, transferRequestTime,
                        paused, totalLocked, maxExposure, cm_balance, fund_balance,
                        blockTimestamp, chainTicks, opened, lastSettle>>

\* ---- counterChallenge ----
\* a counter-challenge that is still taken at the deadline itself
counterChallengeError_AtDeadline(agent, p) ==
    LET ch == cm_channels[agent]
    IN  IF ch.state # "Disputed" THEN "ChannelNotDisputed"
        ELSE IF blockTimestamp > ch.disputeDeadline THEN "ChallengeExpired"
        ELSE IF p.st.nonce <= ch.nonce THEN "StaleNonce"
        ELSE IF ~checkBalanceInvariant(ch, p.st.agentBalance, p.st.casinoBalance)
        THEN "BalanceMismatch"
        ELSE IF ~verifyCasinoSig(agent, p.st.agentBalance, p.st.casinoBalance,
                                 p.st.nonce, p.sig)
        THEN "InvalidSignature"
        ELSE "ok"

\* a counter-challenge that does not compare the nonce with the stored one
counterChallengeError_AnyNonce(agent, p) ==
    LET ch == cm_channels[agent]
    IN  IF ch.state # "Disputed" THEN "ChannelNotDisputed"
        ELSE IF blockTimestamp >= ch.disputeDeadline THEN "ChallengeExpired"
        ELSE IF ~checkBalanceInvariant(ch, p.st.agentBalance, p.st.casinoBalance)
        THEN "BalanceMismatch"
        ELSE IF ~verifyCasinoSig(agent, p.st.agentBalance, p.st.casinoBalance,
                                 p.st.nonce, p.sig)
        THEN "InvalidSignature"
        ELSE "ok"

counterChallengeError(agent, p) ==
    LET ch == cm_channels[agent]
    IN  IF ch.state # "Disputed" THEN "ChannelNotDisputed"
        ELSE IF blockTimestamp >= ch.disputeDeadline THEN "ChallengeExpired"
        ELSE IF p.st.nonce <= ch.nonce THEN "StaleNonce"
        ELSE IF ~checkBalanceInvariant(ch, p.st.agentBalance, p.st.casinoBalance)
        THEN "BalanceMismatch"
        ELSE IF ~verifyCasinoSig(agent, p.st.agentBalance, p.st.casinoBalance,
                                 p.st.nonce, p.sig)
        THEN "InvalidSignature"
        ELSE "ok"

counterChallenge(sender, agent, p) ==
    IF counterChallengeError(agent, p) # "ok"
    THEN Revert("counterChallenge", sender, agent, p, counterChallengeError(agent, p))
    ELSE /\ cm_channels' = [cm_channels EXCEPT
                ![agent].agentBalance = p.st.agentBalance,
                ![agent].casinoBalance = p.st.casinoBalance,
                ![agent].nonce = p.st.nonce,
                ![agent].disputeDeadline = blockTimestamp + CHALLENGE_PERIOD]
         /\ accepted' = [accepted EXCEPT ![agent] = accepted[agent] \cup {p.st}]
         /\ Called("counterChallenge", sender, agent, p)
         /\ UNCHANGED <<pendingWithdrawals, casino, pendingCasino, transferRequestTime,
                        paused, totalLocked, maxExposure, cm_balance, fund_balance,
                        blockTimestamp, chainTicks, opened, lastSettle>>

\* ---- resolveChallenge ----
resolveChallengeError(agent) ==
    LET ch == cm_channels[agent]
    IN  IF ch.state # "Disputed" THEN "ChannelNotDisputed"
        ELSE IF blockTimestamp < ch.disputeDeadline THEN "ChallengePeriodActive"
        ELSE IF settleReverts(agent) THEN "InsufficientLocked"
        ELSE "ok"

resolveChallenge(sender, agent, s1, s2) ==
    IF resolveChallengeError(agent) # "ok"
    THEN Revert("resolveChallenge", sender, agent, NoPresentation,
                resolveChallengeError(agent))
    ELSE /\ settle(agent, cm_channels[agent].agentBalance,
                   cm_channels[agent].casinoBalance, s1, s2)
         /\ Called("resolveChallenge", sender, agent, NoPresentation)
         /\ UNCHANGED <<casino, pendingCasino, transferRequestTime, paused, maxExposure,
                        blockTimestamp, chainTicks, opened, accepted>>

\* ---- emergencyExit ----
\* an exit that does not wait for the minimum duration
emergencyExitError_NoWait(sender) ==
    LET ch == cm_channels[sender]
    IN  IF ch.state # "Open" THEN "ChannelNotOpen"
        ELSE IF ch.nonce # 0 THEN "GamesPlayed"
        ELSE IF settleReverts(sender) THEN "InsufficientLocked"
        ELSE "ok"

emergencyExitError(sender) ==
    LET ch == cm_channels[sender]
    IN  IF ch.state # "Open" THEN "ChannelNotOpen"
        ELSE IF ch.nonce # 0 THEN "GamesPlayed"
        ELSE IF blockTimestamp < ch.openedAt + MIN_CHANNEL_DURATION THEN "TooEarly"
        ELSE IF settleReverts(sender) THEN "InsufficientLocked"
        ELSE "ok"

emergencyExit(sender, s1, s2) ==
    IF emergencyExitError(sender) # "ok"
    THEN Revert("emergencyExit", sender, sender, NoPresentation, emergencyExitError(sender))
    ELSE /\ settle(sender, cm_channels[sender].agentDeposit,
                   cm_channels[sender].casinoDeposit, s1, s2)
         /\ Called("emergencyExit", sender, sender, NoPresentation)
         /\ UNCHANGED <<casino, pendingCasino, transferRequestTime, paused, maxExposure,
                        blockTimestamp, chainTicks, opened, accepted>>

\* ---- the settling functions, called by an agent whose account re-enters ----
closeChannelReentered(sender, p, f, value, s2) ==
    IF closeChannelError(sender, p) # "ok"
    THEN Revert("closeChannel", sender, sender, p, closeChannelError(sender, p))
    ELSE /\ settleReentered(sender, p.st.agentBalance, p.st.casinoBalance, f, value, s2)
         /\ Called("closeChannel", sender, sender, p)
         /\ UNCHANGED <<casino, pendingCasino, transferRequestTime, paused, maxExposure,
                        blockTimestamp, chainTicks, accepted>>

resolveChallengeReentered(sender, agent, f, value, s2) ==
    IF resolveChallengeError(agent) # "ok"
    THEN Revert("resolveChallenge", sender, agent, NoPresentation,
                resolveChallengeError(agent))
    ELSE /\ settleReentered(agent, cm_channels[agent].agentBalance,
                            cm_channels[agent].casinoBalance, f, value, s2)
         /\ Called("resolveChallenge", sender, agent, NoPresentation)
         /\ UNCHANGED <<casino, pendingCasino, transferRequestTime, paused, maxExposure,
                        blockTimestamp, chainTicks, accepted>>

emergencyExitReentered(sender, f, value, s2) ==
    IF emergencyExitError(sender) # "ok"
    THEN Revert("emergencyExit", sender, sender, NoPresentation, emergencyExitError(sender))
    ELSE /\ settleReentered(sender, cm_channels[sender].agentDeposit,
                            cm_channels[sender].casinoDeposit, f, value, s2)
         /\ Called("emergencyExit", sender, sender, NoPresentation)
         /\ UNCHANGED <<casino, pendingCasino, transferRequestTime, paused, maxExposure,
                        blockTimestamp, chainTicks, accepted>>

\* ---- withdrawPending ----
\* a withdrawal that pays without clearing the amount it paid
withdrawPending_NoZero(sender, success) ==
    IF pendingWithdrawals[sender] = 0
    THEN Revert("withdrawPending", sender, sender, NoPresentation, "NothingPending")
    ELSE IF ~success
    THEN Revert("withdrawPending", sender, sender, NoPresentation, "TransferFailed")
    ELSE /\ cm_balance' = cm_balance - pendingWithdrawals[sender]
         /\ Called("withdrawPending", sender, sender, NoPresentation)
         /\ UNCHANGED <<cm_channels, pendingWithdrawals, casino, pendingCasino,
                        transferRequestTime, paused, totalLocked, maxExposure,
                        fund_balance, blockTimestamp, chainTicks, opened, lastSettle,
                        accepted>>

withdrawPending(sender, success) ==
    IF pendingWithdrawals[sender] = 0
    THEN Revert("withdrawPending", sender, sender, NoPresentation, "NothingPending")
    ELSE IF ~success
    THEN Revert("withdrawPending", sender, sender, NoPresentation, "TransferFailed")
    ELSE /\ pendingWithdrawals' = [pendingWithdrawals EXCEPT ![sender] = 0]
         /\ cm_balance' = cm_balance - pendingWithdrawals[sender]
         /\ Called("withdrawPending", sender, sender, NoPresentation)
         /\ UNCHANGED <<cm_channels, casino, pendingCasino, transferRequestTime, paused,
                        totalLocked, maxExposure, fund_balance, blockTimestamp,
                        chainTicks, opened, lastSettle, accepted>>

\* ---- pause / unpause ----
pause(sender) ==
    IF sender # casino
    THEN Revert("pause", sender, "none", NoPresentation, "NotCasino")
    ELSE IF paused
    THEN Revert("pause", sender, "none", NoPresentation, "EnforcedPause")
    ELSE /\ paused' = TRUE
         /\ Called("pause", sender, "none", NoPresentation)
         /\ UNCHANGED <<cm_channels, pendingWithdrawals, casino, pendingCasino,
                        transferRequestTime, totalLocked, maxExposure, cm_balance,
                        fund_balance, blockTimestamp, chainTicks, opened, lastSettle,
                        accepted>>

unpause(sender) ==
    IF sender # casino
    THEN Revert("unpause", sender, "none", NoPresentation, "NotCasino")
    ELSE IF ~paused
    THEN Revert("unpause", sender, "none", NoPresentation, "ExpectedPause")
    ELSE /\ paused' = FALSE
         /\ Called("unpause", sender, "none", NoPresentation)
         /\ UNCHANGED <<cm_channels, pendingWithdrawals, casino, pendingCasino,
                        transferRequestTime, totalLocked, maxExposure, cm_balance,
                        fund_balance, blockTimestamp, chainTicks, opened, lastSettle,
                        accepted>>

\* ---- CasinoOwnable ----
\* ChannelManager._canTransfer
canTransfer == totalLocked = 0

transferCasino(sender, new) ==
    IF sender # casino
    THEN Revert("transferCasino", sender, "none", NoPresentation, "NotCasino")
    ELSE IF new = ZeroAddress
    THEN Revert("transferCasino", sender, "none", NoPresentation, "Zero address")
    ELSE IF new = casino
    THEN Revert("transferCasino", sender, "none", NoPresentation, "Already owner")
    ELSE IF ~canTransfer
    THEN Revert("transferCasino", sender, "none", NoPresentation, "Transfer blocked")
    ELSE /\ pendingCasino' = new
         /\ transferRequestTime' = blockTimestamp
         /\ Called("transferCasino", sender, "none", NoPresentation)
         /\ UNCHANGED <<cm_channels, pendingWithdrawals, casino, paused, totalLocked,
                        maxExposure, cm_balance, fund_balance, blockTimestamp,
                        chainTicks, opened, lastSettle, accepted>>

\* an acceptance that does not wait for the timelock
acceptCasino_NoDelay(sender) ==
    IF sender # pendingCasino
    THEN Revert("acceptCasino", sender, "none", NoPresentation, "Not pending")
    ELSE IF pendingCasino = ZeroAddress
    THEN Revert("acceptCasino", sender, "none", NoPresentation, "No pending transfer")
    ELSE IF ~canTransfer
    THEN Revert("acceptCasino", sender, "none", NoPresentation, "Transfer blocked")
    ELSE /\ casino' = pendingCasino
         /\ pendingCasino' = ZeroAddress
         /\ transferRequestTime' = 0
         /\ Called("acceptCasino", sender, "none", NoPresentation)
         /\ UNCHANGED <<cm_channels, pendingWithdrawals, paused, totalLocked,
                        maxExposure, cm_balance, fund_balance, blockTimestamp,
                        chainTicks, opened, lastSettle, accepted>>

acceptCasino(sender) ==
    IF sender # pendingCasino
    THEN Revert("acceptCasino", sender, "none", NoPresentation, "Not pending")
    ELSE IF pendingCasino = ZeroAddress
    THEN Revert("acceptCasino", sender, "none", NoPresentation, "No pending transfer")
    ELSE IF blockTimestamp < transferRequestTime + OWNERSHIP_TRANSFER_DELAY
    THEN Revert("acceptCasino", sender, "none", NoPresentation, "TransferNotReady")
    ELSE IF ~canTransfer
    THEN Revert("acceptCasino", sender, "none", NoPresentation, "Transfer blocked")
    ELSE /\ casino' = pendingCasino
         /\ pendingCasino' = ZeroAddress
         /\ transferRequestTime' = 0
         /\ Called("acceptCasino", sender, "none", NoPresentation)
         /\ UNCHANGED <<cm_channels, pendingWithdrawals, paused, totalLocked,
                        maxExposure, cm_balance, fund_balance, blockTimestamp,
                        chainTicks, opened, lastSettle, accepted>>

cancelTransferCasino(sender) ==
    IF sender # casino
    THEN Revert("cancelTransferCasino", sender, "none", NoPresentation, "NotCasino")
    ELSE IF pendingCasino = ZeroAddress
    THEN Revert("cancelTransferCasino", sender, "none", NoPresentation,
                "NoPendingTransfer")
    ELSE /\ pendingCasino' = ZeroAddress
         /\ transferRequestTime' = 0
         /\ Called("cancelTransferCasino", sender, "none", NoPresentation)
         /\ UNCHANGED <<cm_channels, pendingWithdrawals, casino, paused, totalLocked,
                        maxExposure, cm_balance, fund_balance, blockTimestamp,
                        chainTicks, opened, lastSettle, accepted>>

\* ---- BankrollManager.setMaxExposure ----
setMaxExposure(sender, max) ==
    IF sender # BankrollCasino
    THEN Revert("setMaxExposure", sender, "none", NoPresentation, "NotCasino")
    ELSE /\ maxExposure' = max
         /\ Called("setMaxExposure", sender, "none", NoPresentation)
         /\ UNCHANGED <<cm_channels, pendingWithdrawals, casino, pendingCasino,
                        transferRequestTime, paused, totalLocked, cm_balance,
                        fund_balance, blockTimestamp, chainTicks, opened, lastSettle,
                        accepted>>

\* ---- InsuranceFund ----
\* the casino role of the InsuranceFund, its own CasinoOwnable, deployed with the
\* house's account
FundCasino == HouseKey

\* receive(): anyone sends ether to the fund
Fund_receive(value) ==
    /\ fund_balance' = fund_balance + value
    /\ UNCHANGED <<cm_channels, pendingWithdrawals, casino, pendingCasino,
                   transferRequestTime, paused, totalLocked, maxExposure, cm_balance,
                   withdrawalRequest, entropyCoinflip, blockTimestamp, chainTicks,
                   opened, lastSettle, accepted, lastCall>>

requestWithdrawal(sender, amount, to) ==
    IF sender # FundCasino
    THEN Revert("requestWithdrawal", sender, "none", NoPresentation, "NotCasino")
    ELSE IF amount > fund_balance
    THEN Revert("requestWithdrawal", sender, "none", NoPresentation, "ExceedsFund")
    ELSE IF to = ZeroAddress
    THEN Revert("requestWithdrawal", sender, "none", NoPresentation, "Zero address")
    ELSE /\ withdrawalRequest' = [amount |-> amount, to |-> to,
                                  requestTime |-> blockTimestamp]
         /\ FundCalled("requestWithdrawal", sender)
         /\ UNCHANGED <<cm_channels, pendingWithdrawals, casino, pendingCasino,
                        transferRequestTime, paused, totalLocked, maxExposure,
                        cm_balance, fund_balance, blockTimestamp, chainTicks, opened,
                        lastSettle, accepted>>

\* an execution that does not wait for the timelock
executeWithdrawal_NoTimelock(sender, success) ==
    IF sender # FundCasino
    THEN Revert("executeWithdrawal", sender, "none", NoPresentation, "NotCasino")
    ELSE IF withdrawalRequest.amount = 0
    THEN Revert("executeWithdrawal", sender, "none", NoPresentation, "NoRequest")
    ELSE IF withdrawalRequest.amount > fund_balance \/ ~success
    THEN Revert("executeWithdrawal", sender, "none", NoPresentation, "TransferFailed")
    ELSE /\ withdrawalRequest' = NoWithdrawal
         /\ fund_balance' = fund_balance - withdrawalRequest.amount
         /\ FundCalled("executeWithdrawal", sender)
         /\ UNCHANGED <<cm_channels, pendingWithdrawals, casino, pendingCasino,
                        transferRequestTime, paused, totalLocked, maxExposure,
                        cm_balance, blockTimestamp, chainTicks, opened, lastSettle,
                        accepted>>

\* success: whether the recipient accepts the ether; a call with more value than the
\* fund holds fails
executeWithdrawal(sender, success) ==
    IF sender # FundCasino
    THEN Revert("executeWithdrawal", sender, "none", NoPresentation, "NotCasino")
    ELSE IF withdrawalRequest.amount = 0
    THEN Revert("executeWithdrawal", sender, "none", NoPresentation, "NoRequest")
    ELSE IF blockTimestamp < withdrawalRequest.requestTime + WITHDRAWAL_DELAY
    THEN Revert("executeWithdrawal", sender, "none", NoPresentation, "TimelockActive")
    ELSE IF withdrawalRequest.amount > fund_balance \/ ~success
    THEN Revert("executeWithdrawal", sender, "none", NoPresentation, "TransferFailed")
    ELSE /\ withdrawalRequest' = NoWithdrawal
         /\ fund_balance' = fund_balance - withdrawalRequest.amount
         /\ FundCalled("executeWithdrawal", sender)
         /\ UNCHANGED <<cm_channels, pendingWithdrawals, casino, pendingCasino,
                        transferRequestTime, paused, totalLocked, maxExposure,
                        cm_balance, blockTimestamp, chainTicks, opened, lastSettle,
                        accepted>>

cancelWithdrawal(sender) ==
    IF sender # FundCasino
    THEN Revert("cancelWithdrawal", sender, "none", NoPresentation, "NotCasino")
    ELSE IF withdrawalRequest.amount = 0
    THEN Revert("cancelWithdrawal", sender, "none", NoPresentation, "NoRequest")
    ELSE /\ withdrawalRequest' = NoWithdrawal
         /\ FundCalled("cancelWithdrawal", sender)
         /\ UNCHANGED <<cm_channels, pendingWithdrawals, casino, pendingCasino,
                        transferRequestTime, paused, totalLocked, maxExposure,
                        cm_balance, fund_balance, blockTimestamp, chainTicks, opened,
                        lastSettle, accepted>>

\* ---- EntropyCoinflip ----
\* the casino role of EntropyCoinflip, its own CasinoOwnable, deployed with the house's
\* account
CoinflipCasino == HouseKey

\* the only field of a round the checks of the contract read is its state
SetRounds(rs) == entropyCoinflip' = [entropyCoinflip EXCEPT !.rounds = rs]

setPaused(sender, p) ==
    IF sender # CoinflipCasino
    THEN Revert("setPaused", sender, "none", NoPresentation, "NotCasino")
    ELSE /\ entropyCoinflip' = [entropyCoinflip EXCEPT !.paused = p]
         /\ CoinflipCalled("setPaused", sender)

setEntropy(sender, new) ==
    IF sender # CoinflipCasino
    THEN Revert("setEntropy", sender, "none", NoPresentation, "NotCasino")
    ELSE IF new = ZeroAddress
    THEN Revert("setEntropy", sender, "none", NoPresentation, "ZeroEntropy")
    ELSE /\ entropyCoinflip' = [entropyCoinflip EXCEPT !.entropy = new]
         /\ CoinflipCalled("setEntropy", sender)

setRoundTtl(sender, ttl) ==
    IF sender # CoinflipCasino
    THEN Revert("setRoundTtl", sender, "none", NoPresentation, "NotCasino")
    ELSE IF ~(ttl >= MIN_ROUND_TTL /\ ttl <= MAX_ROUND_TTL)
    THEN Revert("setRoundTtl", sender, "none", NoPresentation, "InvalidTtl")
    ELSE /\ entropyCoinflip' = [entropyCoinflip EXCEPT !.roundTtl = ttl]
         /\ CoinflipCalled("setRoundTtl", sender)

\* feePaid: msg.value >= quoteFee(); sequenceNumber: what the request paths of the
\* entropy contract left in sequenceNumber, 0 when all of them failed
requestCoinflip(sender, roundId, agent, choice, feePaid, sequenceNumber) ==
    IF sender # CoinflipCasino
    THEN Revert("requestCoinflip", sender, "none", NoPresentation, "NotCasino")
    ELSE IF entropyCoinflip.paused
    THEN Revert("requestCoinflip", sender, "none", NoPresentation, "Paused")
    ELSE IF roundId = 0 \/ agent = ZeroAddress
    THEN Revert("requestCoinflip", sender, "none", NoPresentation, "InvalidRound")
    ELSE IF choice > 1
    THEN Revert("requestCoinflip", sender, "none", NoPresentation, "InvalidChoice")
    ELSE IF entropyCoinflip.rounds[roundId].state # "None"
    THEN Revert("requestCoinflip", sender, "none", NoPresentation, "AlreadyExists")
    ELSE IF ~feePaid
    THEN Revert("requestCoinflip", sender, "none", NoPresentation, "FeeTooLow")
    ELSE IF sequenceNumber = 0
    THEN Revert("requestCoinflip", sender, "none", NoPresentation, "RoundNotReady")
    ELSE /\ entropyCoinflip' =
                [entropyCoinflip EXCEPT
                    !.rounds[roundId] =
                        [roundId |-> roundId, agent |-> agent, choice |-> choice,
                         sequenceNumber |-> sequenceNumber, entropyRandom |-> 0,
                         requestedAt |-> blockTimestamp, fulfilledAt |-> 0,
                         state |-> "Requested"],
                    !.sequenceToRound[sequenceNumber] = roundId]
         /\ CoinflipCalled("requestCoinflip", sender)

\* a callback that writes whatever the state of the round
entropyCallback_Overwrite(sender, sequenceNumber, entropyRandomNumber) ==
    LET roundId == entropyCoinflip.sequenceToRound[sequenceNumber]
    IN  IF sender # entropyCoinflip.entropy
        THEN Revert("entropyCallback", sender, "none", NoPresentation, "OnlyEntropy")
        ELSE IF roundId = 0
        THEN UNCHANGED entropyCoinflip /\ CoinflipCalled("entropyCallback", sender)
        ELSE /\ entropyCoinflip' =
                    [entropyCoinflip EXCEPT
                        !.rounds[roundId].entropyRandom = entropyRandomNumber,
                        !.rounds[roundId].fulfilledAt = blockTimestamp,
                        !.rounds[roundId].state = "Fulfilled"]
             /\ CoinflipCalled("entropyCallback", sender)

\* EntropyConsumer._entropyCallback with EntropyCoinflip.entropyCallback
entropyCallback(sender, sequenceNumber, entropyRandomNumber) ==
    LET roundId == entropyCoinflip.sequenceToRound[sequenceNumber]
    IN  IF sender # entropyCoinflip.entropy
        THEN Revert("entropyCallback", sender, "none", NoPresentation, "OnlyEntropy")
        ELSE IF roundId = 0
        THEN UNCHANGED entropyCoinflip /\ CoinflipCalled("entropyCallback", sender)
        ELSE IF entropyCoinflip.rounds[roundId].state # "Requested"
        THEN UNCHANGED entropyCoinflip /\ CoinflipCalled("entropyCallback", sender)
        ELSE /\ entropyCoinflip' =
                    [entropyCoinflip EXCEPT
                        !.rounds[roundId].entropyRandom = entropyRandomNumber,
                        !.rounds[roundId].fulfilledAt = blockTimestamp,
                        !.rounds[roundId].state = "Fulfilled"]
             /\ CoinflipCalled("entropyCallback", sender)

\* a settlement mark that does not look at the state of the round
markSettled_AnyState(sender, roundId) ==
    IF sender # CoinflipCasino
    THEN Revert("markSettled", sender, "none", NoPresentation, "NotCasino")
    ELSE /\ entropyCoinflip' = [entropyCoinflip EXCEPT !.rounds[roundId].state = "Settled"]
         /\ CoinflipCalled("markSettled", sender)

markSettled(sender, roundId) ==
    IF sender # CoinflipCasino
    THEN Revert("markSettled", sender, "none", NoPresentation, "NotCasino")
    ELSE IF entropyCoinflip.rounds[roundId].state # "Fulfilled"
    THEN Revert("markSettled", sender, "none", NoPresentation, "RoundNotReady")
    ELSE /\ entropyCoinflip' = [entropyCoinflip EXCEPT !.rounds[roundId].state = "Settled"]
         /\ CoinflipCalled("markSettled", sender)

markExpired(sender, roundId) ==
    IF sender # CoinflipCasino
    THEN Revert("markExpired", sender, "none", NoPresentation, "NotCasino")
    ELSE IF entropyCoinflip.rounds[roundId].state # "Requested"
    THEN Revert("markExpired", sender, "none", NoPresentation, "RoundNotReady")
    ELSE IF blockTimestamp <= entropyCoinflip.rounds[roundId].requestedAt
                                + entropyCoinflip.roundTtl
    THEN Revert("markExpired", sender, "none", NoPresentation, "RoundNotExpired")
    ELSE /\ entropyCoinflip' = [entropyCoinflip EXCEPT !.rounds[roundId].state = "Expired"]
         /\ CoinflipCalled("markExpired", sender)

\* ---- the chain's clock ----
AdvanceTime(d) ==
    /\ blockTimestamp' = blockTimestamp + d
    /\ chainTicks' = chainTicks + 1
    /\ UNCHANGED <<cm_channels, pendingWithdrawals, casino, pendingCasino,
                   transferRequestTime, paused, totalLocked, maxExposure, cm_balance,
                   fund_balance, withdrawalRequest, entropyCoinflip, opened, lastSettle,
                   accepted, lastCall>>

-----------------------------------------------------------------------------
(* The states calls present on-chain *)

Present(key, signedAgent, signedSt, st) ==
    [st |-> st,
     sig |-> SignedBy(key, signedAgent, signedSt.agentBalance, signedSt.casinoBalance,
                      signedSt.nonce)]

ChainPresented ==
    { \* states the house signed for a1
      Present("house", "a1", St(100, 100, 0), St(100, 100, 0)),
      Present("house", "a1", St(120, 80, 7), St(120, 80, 7)),
      Present("house", "a1", St(85, 115, 8), St(85, 115, 8)),
      Present("house", "a1", St(80, 120, 9), St(80, 120, 9)),
      \* a state the house signed whose balances do not add up to the deposits
      Present("house", "a1", St(80, 121, 9), St(80, 121, 9)),
      \* a state signed with a key that is not the house's
      Present("mallory", "a1", St(200, 0, 10), St(200, 0, 10)),
      \* a signature of the house presented with other values than it was made over
      Present("house", "a1", St(80, 120, 9), St(199, 1, 10)),
      \* a state the house signed for another agent
      Present("house", "a2", St(90, 110, 10), St(90, 110, 10)),
      \* a state signed by the account the ownership is handed to
      Present("house2", "a1", St(90, 110, 10), St(90, 110, 10)) }

\* the states the engine has signed, as an agent presents them
EnginePresented ==
    { Present(HouseKey, s.agent, St(s.agentBalance, s.casinoBalance, s.nonce),
              St(s.agentBalance, s.casinoBalance, s.nonce)) : s \in signedStates }

-----------------------------------------------------------------------------
(* The system after construction and deployment *)

EngineInit ==
    /\ channels = EmptyMap
    /\ pendingCommits = EmptyMap
    /\ draws = MapSet(EmptyMap, 1, NewDraw(1, 0))
    /\ currentDrawId = 1
    /\ unclaimedWinnings = EmptyMap
    /\ now = 0
    /\ inflight = {}
    /\ signedStates = {}
    /\ nextInst = 1
    /\ ticks = 0
    /\ last = NoRequest

ChainInit ==
    /\ cm_channels = [a \in Accounts |-> NoChannel]
    /\ pendingWithdrawals = [x \in Accounts |-> 0]
    /\ casino = HouseKey
    /\ pendingCasino = ZeroAddress
    /\ transferRequestTime = 0
    /\ paused = FALSE
    /\ totalLocked = 0
    /\ maxExposure = InitialMaxExposure
    /\ cm_balance = 0
    /\ fund_balance = 0
    /\ withdrawalRequest = NoWithdrawal
    /\ entropyCoinflip = [rounds |-> [r \in RoundIds |-> NoRound],
                          sequenceToRound |-> [q \in SequenceNumbers |-> 0],
                          entropy |-> "pyth", roundTtl |-> DEFAULT_ROUND_TTL,
                          paused |-> FALSE]
    /\ blockTimestamp = 1
    /\ chainTicks = 0
    /\ opened = 0
    /\ lastSettle = NoSettle
    /\ accepted = [a \in Accounts |-> {}]
    /\ lastCall = NoCall

Init == EngineInit /\ ChainInit

\* the part of the engine's state space that is explored
EngineBounds(maxNonce, maxInst, maxTicks, maxInflight) ==
    /\ \A a \in DOMAIN channels : channels[a].nonce + channels[a].inst - 1 <= maxNonce
    /\ nextInst <= maxInst + 1
    /\ ticks <= maxTicks
    /\ Cardinality(inflight) <= maxInflight

\* the part of the chain's state space that is explored
ChainBounds(maxOpened, maxChainTicks) ==
    /\ opened <= maxOpened
    /\ chainTicks <= maxChainTicks

-----------------------------------------------------------------------------
(* Spec: the engine and its games *)

Within == EngineBounds(MaxNonce, MaxInst, MaxTicks, MaxInflight)
EngineOnly == UNCHANGED chainVars /\ Within'

Next ==
    \/ \E a \in EngineAgents, ad \in AgentDeposits, cd \in CasinoDeposits :
            Engine_openChannel(a, ad, cd) /\ EngineOnly
    \/ \E a \in EngineAgents : Engine_closeChannel(a) /\ EngineOnly
    \/ \E a \in EngineAgents, b \in Bets, sd \in FirstSeed :
            Slots_commit(a, b, sd) /\ EngineOnly
    \/ \E a \in EngineAgents, r \in SpinWords :
            Slots_reveal(a, r[1], r[2], r[3]) /\ EngineOnly
    \/ \E a \in EngineAgents, b \in Bets, c \in Choices, sd \in FirstSeed :
            Coinflip_commit(a, b, c, sd) /\ EngineOnly
    \/ \E a \in EngineAgents, r0 \in RngSamples : Coinflip_reveal(a, r0) /\ EngineOnly
    \/ \E a \in EngineAgents, n \in PickedNumbers, k \in TicketCounts :
            Lotto_buy(a, n, k) /\ EngineOnly
    \/ \E a \in EngineAgents : Lotto_claim(a) /\ EngineOnly
    \/ \E w \in RngSamples : Engine_runScheduledTasks(w) /\ EngineOnly
    \/ \E c \in inflight, ok \in BOOLEAN : SignReturn(c, ok) /\ EngineOnly
    \/ \E d \in TimeSteps : Tick(d) /\ EngineOnly

Spec == Init /\ [][Next]_vars

-----------------------------------------------------------------------------
(* SpecBet: commit-reveal rounds of both games, in wei *)

BetWithin == EngineBounds(BetMaxNonce, 1, BetMaxTicks, MaxInflight)
BetOnly == UNCHANGED chainVars /\ BetWithin'

BetNext ==
    \/ \E a \in EngineAgents, ad \in BetAgentDeposits, cd \in BetCasinoDeposits :
            Engine_openChannel(a, ad, cd) /\ BetOnly
    \/ \E a \in EngineAgents, b \in BetAmounts, sd \in Seeds :
            Slots_commit(a, b, sd) /\ BetOnly
    \/ \E a \in EngineAgents, r \in BetSpinWords :
            Slots_reveal(a, r[1], r[2], r[3]) /\ BetOnly
    \/ \E a \in EngineAgents, b \in BetAmounts, c \in BetChoices, sd \in FirstSeed :
            Coinflip_commit(a, b, c, sd) /\ BetOnly
    \/ \E a \in EngineAgents, r0 \in BetRngSamples : Coinflip_reveal(a, r0) /\ BetOnly
    \/ \E c \in inflight, ok \in BOOLEAN : SignReturn(c, ok) /\ BetOnly
    \/ \E d \in BetTimeSteps : Tick(d) /\ BetOnly

SpecBet == Init /\ [][BetNext]_vars

-----------------------------------------------------------------------------
(* SpecFlip: a coinflip whose reveal comes after slots jackpots, in wei *)

FlipWithin == EngineBounds(FlipMaxNonce, 1, 0, MaxInflight)
FlipOnly == UNCHANGED chainVars /\ FlipWithin'

FlipNext ==
    \/ \E a \in EngineAgents, ad \in FlipAgentDeposits, cd \in FlipCasinoDeposits :
            Engine_openChannel(a, ad, cd) /\ FlipOnly
    \/ \E a \in EngineAgents, b \in FlipAmounts, c \in FlipChoices, sd \in FirstSeed :
            Coinflip_commit(a, b, c, sd) /\ FlipOnly
    \/ \E a \in EngineAgents, r0 \in BetRngSamples : Coinflip_reveal(a, r0) /\ FlipOnly
    \/ \E a \in EngineAgents, b \in FlipSlotsAmounts, sd \in FirstSeed :
            Slots_commit(a, b, sd) /\ FlipOnly
    \/ \E a \in EngineAgents, r \in FlipSpinWords :
            Slots_reveal(a, r[1], r[2], r[3]) /\ FlipOnly
    \/ \E c \in inflight, ok \in BOOLEAN : SignReturn(c, ok) /\ FlipOnly

SpecFlip == Init /\ [][FlipNext]_vars

-----------------------------------------------------------------------------
(* SpecLotto: ticket purchases, draws and claims of two agents *)

LottoWithin == EngineBounds(LottoMaxNonce, LottoMaxInst, LottoMaxTicks, MaxInflight)
LottoOnly == UNCHANGED chainVars /\ LottoWithin'

LottoNext ==
    \/ \E o \in LottoOpenings : Engine_openChannel(o[1], o[2], o[3]) /\ LottoOnly
    \/ \E a \in LottoAgents : Engine_closeChannel(a) /\ LottoOnly
    \/ \E a \in LottoAgents, n \in LottoPicked, k \in LottoCounts :
            Lotto_buy(a, n, k) /\ LottoOnly
    \/ \E a \in LottoAgents : Lotto_claim(a) /\ LottoOnly
    \/ \E w \in LottoWords : Engine_runScheduledTasks(w) /\ LottoOnly
    \/ \E c \in inflight, ok \in BOOLEAN : SignReturn(c, ok) /\ LottoOnly
    \/ Tick(DRAW_INTERVAL) /\ LottoOnly

SpecLotto == Init /\ [][LottoNext]_vars

-----------------------------------------------------------------------------
(* SpecRace: a draw with up to two winners, and claims while the scheduler waits for
   the signer; the signer answers every request *)

RaceWithin == EngineBounds(RaceMaxNonce, 2, 1, RaceMaxInflight)
RaceOnly == UNCHANGED chainVars /\ RaceWithin'

RaceNext ==
    \/ \E a \in LottoAgents : Engine_openChannel(a, 20, 850) /\ RaceOnly
    \/ \E a \in LottoAgents : Lotto_buy(a, 42, 1) /\ RaceOnly
    \/ \E a \in LottoAgents : Lotto_claim(a) /\ RaceOnly
    \/ Engine_runScheduledTasks(41) /\ RaceOnly
    \/ \E c \in inflight : SignReturn(c, TRUE) /\ RaceOnly
    \/ Tick(DRAW_INTERVAL) /\ RaceOnly

SpecRace == Init /\ [][RaceNext]_vars

(* Coinflip rounds and closes of one agent, two requests waiting for the signer *)

WaitWithin == EngineBounds(WaitMaxNonce, WaitMaxInst, 0, WaitMaxInflight)
WaitOnly == UNCHANGED chainVars /\ WaitWithin'

WaitNext ==
    \/ \E a \in EngineAgents, ad \in BetAgentDeposits, cd \in BetCasinoDeposits :
            Engine_openChannel(a, ad, cd) /\ WaitOnly
    \/ \E a \in EngineAgents, sd \in Seeds : Coinflip_commit(a, 2, "heads", sd) /\ WaitOnly
    \/ \E a \in EngineAgents, r0 \in BetRngSamples : Coinflip_reveal(a, r0) /\ WaitOnly
    \/ \E a \in EngineAgents : Engine_closeChannel(a) /\ WaitOnly
    \/ \E c \in inflight : SignReturn(c, TRUE) /\ WaitOnly

SpecWait == Init /\ [][WaitNext]_vars

-----------------------------------------------------------------------------
(* SpecTamper: closes of channels whose balances were changed in memory *)

\* 1 ether, in units of 0.001 ether
TamperAmounts == {1000}

TamperWithin ==
    /\ EngineBounds(TamperMaxNonce, TamperMaxInst, 0, MaxInflight)
    /\ \A a \in DOMAIN channels :
          LET drift == channels[a].agentBalance + channels[a].casinoBalance
                         - channels[a].agentDeposit - channels[a].casinoDeposit
          IN  drift <= TamperMaxDrift /\ 0 - drift <= TamperMaxDrift
TamperOnly == UNCHANGED chainVars /\ TamperWithin'

TamperNext ==
    \/ \E a \in LottoAgents : Engine_openChannel(a, 20, 850) /\ TamperOnly
    \/ \E a \in LottoAgents : Lotto_buy(a, 42, 1) /\ TamperOnly
    \/ \E a \in LottoAgents, d \in TamperAmounts : Tamper(a, d) /\ TamperOnly
    \/ \E a \in LottoAgents, d \in TamperAmounts : Tamper(a, 0 - d) /\ TamperOnly
    \/ \E a \in LottoAgents : Engine_closeChannel(a) /\ TamperOnly
    \/ \E c \in inflight, ok \in BOOLEAN : SignReturn(c, ok) /\ TamperOnly

SpecTamper == Init /\ [][TamperNext]_vars

-----------------------------------------------------------------------------
(* CasinoA2AHandler._openChannel, and SpecOpen: channels opened through it *)

\* the strings that arrive as params.stealthAddress: account n in lower case is
\* ToString(n); "0x1" is account 1 in its checksummed mixed-case spelling, "zz" is no
\* address
Spellings == {ToString(n) : n \in 1..OpenMaxAccounts} \cup {"0x1"}
OpenAddresses == Spellings \cup {"zz"}

\* ethers.isAddress accepts the lower-case and the checksummed spelling
isAddress(s) == s \in Spellings

\* the 20-byte account a spelling denotes
AccountOf(s) == IF s = "0x1" THEN "1" ELSE s

\* a handler that compares accounts instead of strings
A2A_openChannel_ByAccount(s, agentDep, casinoDep) ==
    IF ~isAddress(s) THEN Throw("open_channel", s, "Invalid stealthAddress")
    ELSE IF agentDep = 0 \/ casinoDep = 0
    THEN Throw("open_channel", s, "Missing deposit amounts")
    ELSE IF agentDep <= 0 \/ casinoDep <= 0
    THEN Throw("open_channel", s, "Deposits must be positive")
    ELSE IF agentDep < A2A_MIN_DEPOSIT THEN Throw("open_channel", s, "Min deposit")
    ELSE IF agentDep > A2A_MAX_DEPOSIT THEN Throw("open_channel", s, "Max deposit")
    ELSE IF \E t \in DOMAIN channels : AccountOf(t) = AccountOf(s)
    THEN Throw("open_channel", s, "Channel already exists for this address")
    ELSE IF Cardinality(DOMAIN channels) >= MAX_CHANNELS
    THEN Throw("open_channel", s, "Max concurrent channels reached")
    ELSE Engine_openChannel(s, agentDep, casinoDep)

A2A_openChannel(s, agentDep, casinoDep) ==
    IF ~isAddress(s) THEN Throw("open_channel", s, "Invalid stealthAddress")
    ELSE IF agentDep = 0 \/ casinoDep = 0
    THEN Throw("open_channel", s, "Missing deposit amounts")
    ELSE IF agentDep <= 0 \/ casinoDep <= 0
    THEN Throw("open_channel", s, "Deposits must be positive")
    ELSE IF agentDep < A2A_MIN_DEPOSIT THEN Throw("open_channel", s, "Min deposit")
    ELSE IF agentDep > A2A_MAX_DEPOSIT THEN Throw("open_channel", s, "Max deposit")
    ELSE IF s \in DOMAIN channels
    THEN Throw("open_channel", s, "Channel already exists for this address")
    ELSE IF Cardinality(DOMAIN channels) >= MAX_CHANNELS
    THEN Throw("open_channel", s, "Max concurrent channels reached")
    ELSE Engine_openChannel(s, agentDep, casinoDep)

OpenDeposits == {0, 10, 10001}

\* accounts ask in the order of their numbers; account 1 may also ask, at any time,
\* under its second spelling
OpenWithin ==
    /\ \A n \in 2..OpenMaxAccounts :
          ToString(n) \in DOMAIN channels => ToString(n - 1) \in DOMAIN channels
    /\ \A s \in DOMAIN channels : channels[s].casinoDeposit = 10
OpenOnly == UNCHANGED chainVars /\ OpenWithin'

OpenNext ==
    \E s \in OpenAddresses, ad \in OpenDeposits, cd \in OpenDeposits :
        A2A_openChannel(s, ad, cd) /\ OpenOnly

SpecOpen == Init /\ [][OpenNext]_vars

-----------------------------------------------------------------------------
(* SpecChain: the settlement contract, called with ChainPresented *)

ChainOnly == UNCHANGED engineVars /\ ChainBounds(MaxOpened, MaxChainTicks)'

ChainNext ==
    \/ \E a \in ChainAgents, v \in OpenValues : openChannel(a, v) /\ ChainOnly
    \/ \E s \in Callers, a \in ChainAgents, v \in FundValues :
            fundCasinoSide(s, a, v) /\ ChainOnly
    \/ \E a \in ChainAgents, p \in ChainPresented, s1, s2 \in BOOLEAN :
            closeChannel(a, p, s1, s2) /\ ChainOnly
    \/ \E a \in ChainAgents, p \in ChainPresented : startChallenge(a, p) /\ ChainOnly
    \/ \E a \in ChainAgents, p \in ChainPresented :
            counterChallenge("house", a, p) /\ ChainOnly
    \/ \E a \in ChainAgents, s1, s2 \in BOOLEAN :
            resolveChallenge("mallory", a, s1, s2) /\ ChainOnly
    \/ \E a \in ChainAgents, s1, s2 \in BOOLEAN : emergencyExit(a, s1, s2) /\ ChainOnly
    \/ \E x \in Accounts, success \in BOOLEAN : withdrawPending(x, success) /\ ChainOnly
    \/ \E d \in ChainTimeSteps : AdvanceTime(d) /\ ChainOnly

SpecChain == Init /\ [][ChainNext]_vars

-----------------------------------------------------------------------------
(* SpecSig: the calls that verify a signature, and the handover of the casino role *)

SigNext ==
    \/ \E a \in ChainAgents, v \in OpenValues : openChannel(a, v) /\ ChainOnly
    \/ \E s \in Callers, a \in ChainAgents, v \in FundValues :
            fundCasinoSide(s, a, v) /\ ChainOnly
    \/ \E a \in ChainAgents, p \in ChainPresented :
            closeChannel(a, p, TRUE, TRUE) /\ ChainOnly
    \/ \E a \in ChainAgents, p \in ChainPresented : startChallenge(a, p) /\ ChainOnly
    \/ \E a \in ChainAgents, p \in ChainPresented :
            counterChallenge("house", a, p) /\ ChainOnly
    \/ \E s \in Callers, new \in {ZeroAddress, "house", "house2"} :
            transferCasino(s, new) /\ ChainOnly
    \/ \E s \in Callers : acceptCasino(s) /\ ChainOnly
    \/ \E s \in Callers : cancelTransferCasino(s) /\ ChainOnly
    \/ AdvanceTime(CHALLENGE_PERIOD) /\ ChainOnly

SpecSig == Init /\ [][SigNext]_vars

-----------------------------------------------------------------------------
(* SpecOwn: the handover of the casino role while a channel is opened, funded and *)
(* left, and the contract is paused and unpaused                                  *)

\* an hour, and what is left of the two days
OwnTimeSteps == {MIN_CHANNEL_DURATION, OWNERSHIP_TRANSFER_DELAY - MIN_CHANNEL_DURATION}
OwnCandidates == {ZeroAddress, "house", "house2"}

OwnOnly == UNCHANGED engineVars /\ ChainBounds(OwnMaxOpened, OwnMaxChainTicks)'

OwnNext ==
    \/ \E a \in ChainAgents, v \in FundValues : openChannel(a, v) /\ OwnOnly
    \/ \E s \in Callers, a \in ChainAgents, v \in FundValues :
            fundCasinoSide(s, a, v) /\ OwnOnly
    \/ \E a \in ChainAgents : emergencyExit(a, TRUE, TRUE) /\ OwnOnly
    \/ \E s \in Callers, new \in OwnCandidates : transferCasino(s, new) /\ OwnOnly
    \/ \E s \in Callers : acceptCasino(s) /\ OwnOnly
    \/ \E s \in Callers : cancelTransferCasino(s) /\ OwnOnly
    \/ \E s \in Callers : pause(s) /\ OwnOnly
    \/ \E s \in Callers : unpause(s) /\ OwnOnly
    \/ \E d \in OwnTimeSteps : AdvanceTime(d) /\ OwnOnly

SpecOwn == Init /\ [][OwnNext]_vars

-----------------------------------------------------------------------------
(* SpecFund: ether arrives at the InsuranceFund; its owner requests, cancels and *)
(* executes withdrawals                                                          *)

FundAmounts == {0, 50, 100, 150}
FundRecipients == {ZeroAddress, "house", "mallory"}
FundSenders == {"house", "mallory"}
\* one day and two days
FundTimeSteps == {CHALLENGE_PERIOD, OWNERSHIP_TRANSFER_DELAY}

FundWithin ==
    /\ ChainBounds(0, FundMaxChainTicks)
    /\ fund_balance <= FundMaxBalance
FundOnly == UNCHANGED engineVars /\ FundWithin'

FundNext ==
    \/ \E v \in FundValues : Fund_receive(v) /\ FundOnly
    \/ \E s \in FundSenders, amount \in FundAmounts, to \in FundRecipients :
            requestWithdrawal(s, amount, to) /\ FundOnly
    \/ \E s \in FundSenders, success \in BOOLEAN : executeWithdrawal(s, success) /\ FundOnly
    \/ \E s \in FundSenders : cancelWithdrawal(s) /\ FundOnly
    \/ \E d \in FundTimeSteps : AdvanceTime(d) /\ FundOnly

SpecFund == Init /\ [][FundNext]_vars

-----------------------------------------------------------------------------------------------------------------------------------------------------
(* SpecRng: two rounds of EntropyCoinflip are requested, fulfilled by the entropy *)
(* contract, settled and expired                                                  *)

RngOnly == UNCHANGED engineVars /\ ChainBounds(0, RngMaxChainTicks)'

RngNext ==
    \/ \E s \in RngOwners, r \in RoundIds, q \in SequenceNumbers :
            requestCoinflip(s, r, "a1", 0, TRUE, q) /\ RngOnly
    \/ \E s \in RngSenders \ {"house"}, q \in SequenceNumbers, x \in RngRandoms :
            entropyCallback(s, q, x) /\ RngOnly
    \/ \E s \in RngOwners, r \in RoundIds : markSettled(s, r) /\ RngOnly
    \/ \E s \in RngOwners, r \in RoundIds : markExpired(s, r) /\ RngOnly
    \/ \E s \in RngOwners, e \in RngEntropies : setEntropy(s, e) /\ RngOnly
    \/ AdvanceTime(DEFAULT_ROUND_TTL + 1) /\ RngOnly

SpecRng == Init /\ [][RngNext]_vars

-----------------------------------------------------------------------------
(* SpecTtl: one round of EntropyCoinflip, requested with good and bad arguments, *)
(* while the owner pauses the contract and changes the time to live              *)

TtlOnly ==
    /\ UNCHANGED engineVars
    /\ ChainBounds(0, TtlMaxChainTicks)'
    /\ entropyCoinflip'.rounds[2] = NoRound

TtlNext ==
    \/ \E s \in RngOwners, r \in RoundIds, a \in {ZeroAddress, "a1"}, c \in RngChoices,
          f \in BOOLEAN, q \in SequenceNumbers :
            requestCoinflip(s, r, a, c, f, q) /\ TtlOnly
    \/ \E s \in RngSenders, r \in RoundIds : markExpired(s, r) /\ TtlOnly
    \/ \E s \in RngOwners, t \in RngTtls : setRoundTtl(s, t) /\ TtlOnly
    \/ \E s \in RngOwners, p \in BOOLEAN : setPaused(s, p) /\ TtlOnly
    \/ \E d \in RngTimeSteps : AdvanceTime(d) /\ TtlOnly

SpecTtl == Init /\ [][TtlNext]_vars

-----------------------------------------------------------------------------
(* SpecBank: two agents' channels funded against the exposure limit, which the *)
(* owner of the BankrollManager moves                                          *)

BankOnly == UNCHANGED engineVars /\ ChainBounds(BankMaxOpened, BankMaxChainTicks)'

BankNext ==
    \/ \E a \in Agents, v \in FundValues : openChannel(a, v) /\ BankOnly
    \/ \E s \in {"house", "mallory"}, a \in Agents, v \in FundValues :
            fundCasinoSide(s, a, v) /\ BankOnly
    \/ \E a \in Agents, p \in ChainPresented : closeChannel(a, p, TRUE, TRUE) /\ BankOnly
    \/ \E a \in Agents : emergencyExit(a, TRUE, TRUE) /\ BankOnly
    \/ \E s \in {"house", "mallory"}, m \in MaxExposures : setMaxExposure(s, m) /\ BankOnly
    \/ AdvanceTime(MIN_CHANNEL_DURATION) /\ BankOnly

SpecBank == Init /\ [][BankNext]_vars

-----------------------------------------------------------------------------
(* SpecEscrow: two agents' channels from deposit to payout, with payees that refuse *)
(* the transfer or call back into the ChannelManager while they are paid            *)

EscrowWithin == ChainBounds(EscrowMaxOpened, EscrowMaxChainTicks)
EscrowOnly == UNCHANGED engineVars /\ EscrowWithin'
\* a transaction that returns; one that reverts leaves the contracts as they were
EscrowReturns == EscrowOnly /\ lastCall'.result = "ok"

EscrowNext ==
    \/ \E a \in Agents, v \in EscrowOpenValues : openChannel(a, v) /\ EscrowReturns
    \/ \E a \in Agents, v \in EscrowFundValues :
            fundCasinoSide(HouseKey, a, v) /\ EscrowReturns
    \/ \E a \in Agents, p \in ChainPresented, s1, s2 \in BOOLEAN :
            closeChannel(a, p, s1, s2) /\ EscrowReturns
    \/ \E a \in Agents, p \in ChainPresented : startChallenge(a, p) /\ EscrowReturns
    \/ \E a \in Agents, p \in ChainPresented :
            counterChallenge(HouseKey, a, p) /\ EscrowReturns
    \/ \E a \in Agents, s1, s2 \in BOOLEAN :
            resolveChallenge(HouseKey, a, s1, s2) /\ EscrowReturns
    \/ \E a \in Agents, s1, s2 \in BOOLEAN : emergencyExit(a, s1, s2) /\ EscrowReturns
    \/ \E a \in Agents, p \in ChainPresented, f \in HookCalls, v \in EscrowOpenValues,
          s2 \in BOOLEAN :
            closeChannelReentered(a, p, f, v, s2) /\ EscrowReturns
    \/ \E a \in Agents, f \in HookCalls, v \in EscrowOpenValues, s2 \in BOOLEAN :
            resolveChallengeReentered(HouseKey, a, f, v, s2) /\ EscrowReturns
    \/ \E a \in Agents, f \in HookCalls, v \in EscrowOpenValues, s2 \in BOOLEAN :
            emergencyExitReentered(a, f, v, s2) /\ EscrowReturns
    \/ \E x \in Agents \cup {HouseKey}, success \in BOOLEAN :
            withdrawPending(x, success) /\ EscrowReturns
    \/ \E d \in ChainTimeSteps : AdvanceTime(d) /\ EscrowOnly

SpecEscrow == Init /\ [][EscrowNext]_vars

-----------------------------------------------------------------------------
(* SpecS1: an agent opens a channel on-chain and in the engine, the house funds it, *)
(* and the agent closes it with what the engine signed                              *)

S1Within ==
    /\ EngineBounds(S1MaxNonce, S1MaxInst, 0, MaxInflight)
    /\ ChainBounds(S1MaxOpened, S1MaxChainTicks)
S1Engine == UNCHANGED chainVars /\ S1Within'
S1Chain == UNCHANGED engineVars /\ S1Within'

S1Next ==
    \/ \E a \in EngineAgents, ad \in S1Deposits, cd \in S1Deposits :
            Engine_openChannel(a, ad, cd) /\ S1Engine
    \/ \E a \in EngineAgents : Engine_closeChannel(a) /\ S1Engine
    \/ \E a \in EngineAgents, b \in Bets, c \in Choices, sd \in FirstSeed :
            Coinflip_commit(a, b, c, sd) /\ S1Engine
    \/ \E a \in EngineAgents, r0 \in RngSamples : Coinflip_reveal(a, r0) /\ S1Engine
    \/ \E c \in inflight, ok \in BOOLEAN : SignReturn(c, ok) /\ S1Engine
    \/ \E a \in ChainAgents, v \in S1Deposits : openChannel(a, v) /\ S1Chain
    \/ \E a \in ChainAgents, v \in S1Deposits : fundCasinoSide(HouseKey, a, v) /\ S1Chain
    \/ \E a \in ChainAgents, p \in EnginePresented, s1, s2 \in BOOLEAN :
            closeChannel(a, p, s1, s2) /\ S1Chain
    \/ \E a \in ChainAgents, s1, s2 \in BOOLEAN : emergencyExit(a, s1, s2) /\ S1Chain
    \/ \E d \in ChainTimeSteps : AdvanceTime(d) /\ S1Chain

SpecS1 == Init /\ [][S1Next]_vars

(* One agent's channels from the on-chain deposit to the settlement: the engine opens
   its channel for the deposits the contract holds, once per on-chain channel *)

LifeWithin ==
    /\ EngineBounds(LifeMaxNonce, LifeMaxInst, 0, MaxInflight)
    /\ ChainBounds(LifeMaxOpened, LifeMaxChainTicks)
LifeEngine == UNCHANGED chainVars /\ LifeWithin'
LifeChain == UNCHANGED engineVars /\ LifeWithin'
\* a transaction that returns; one that reverts leaves the contract as it was
LifeReturns == LifeChain /\ lastCall'.result = "ok"

\* agent a's on-chain channel is open and funded, and the engine has not yet opened a
\* channel for it
Deposited(a) ==
    /\ cm_channels[a].state = "Open"
    /\ cm_channels[a].casinoDeposit > 0
    /\ nextInst = opened

LifeNext ==
    \/ \E a \in EngineAgents, v \in S1Deposits : openChannel(a, v) /\ LifeReturns
    \/ \E a \in EngineAgents, v \in S1Deposits :
            fundCasinoSide(HouseKey, a, v) /\ LifeReturns
    \/ \E a \in EngineAgents :
            /\ Deposited(a)
            /\ Engine_openChannel(a, cm_channels[a].agentDeposit,
                                  cm_channels[a].casinoDeposit)
            /\ LifeEngine
    \/ \E a \in EngineAgents, sd \in FirstSeed :
            Coinflip_commit(a, 1, "heads", sd) /\ LifeEngine
    \/ \E a \in EngineAgents, r0 \in LifeRngSamples : Coinflip_reveal(a, r0) /\ LifeEngine
    \/ \E a \in EngineAgents : Engine_closeChannel(a) /\ LifeEngine
    \/ \E c \in inflight : SignReturn(c, TRUE) /\ LifeEngine
    \/ \E a \in EngineAgents, p \in EnginePresented :
            closeChannel(a, p, TRUE, TRUE) /\ LifeReturns
    \/ \E a \in EngineAgents, p \in EnginePresented : startChallenge(a, p) /\ LifeReturns
    \/ \E a \in EngineAgents, p \in EnginePresented :
            counterChallenge(HouseKey, a, p) /\ LifeReturns
    \/ \E a \in EngineAgents : resolveChallenge(HouseKey, a, TRUE, TRUE) /\ LifeReturns
    \/ \E a \in EngineAgents : emergencyExit(a, TRUE, TRUE) /\ LifeReturns
    \/ \E d \in ChainTimeSteps : AdvanceTime(d) /\ LifeChain

SpecLife == Init /\ [][LifeNext]_vars

-----------------------------------------------------------------------------
(* Properties of the engine *)

MutatingOps == {"slots_reveal", "coinflip_reveal", "lotto_buy", "lotto_claim",
                "applyWinnings"}
CommitOps == {"slots_commit", "coinflip_commit"}

\* C1: off-chain conservation. After any sequence of engine operations every channel
\* in the engine's table has agentBalance + casinoBalance equal to
\* agentDeposit + casinoDeposit.
C1_Conservation ==
    \A a \in DOMAIN channels :
        channels[a].agentBalance + channels[a].casinoBalance
            = channels[a].agentDeposit + channels[a].casinoDeposit

\* a slots spin was won and signed: the agent holds more than it deposited
C1_Witness ==
    /\ last.op = "slots_reveal"
    /\ last.result = "ok"
    /\ \E a \in DOMAIN channels : channels[a].agentBalance > channels[a].agentDeposit

\* C2: off-chain non-negativity. Neither balance of any channel is ever negative, also
\* when the agent drains its balance through another game between a commit and its
\* reveal.
C2_NonNegative ==
    \A a \in DOMAIN channels :
        channels[a].agentBalance >= 0 /\ channels[a].casinoBalance >= 0

\* the agent spent its whole balance on lotto tickets after committing to a spin, and
\* the reveal of that spin was refused
C2_Witness ==
    /\ last.op = "slots_reveal"
    /\ last.result = "Insufficient balance at reveal"
    /\ channels[last.agent].agentBalance = 0
    /\ channels[last.agent].nonce > 0

\* C3: nonce discipline. A mutation that returns successfully has raised the nonce by
\* exactly 1 and its resulting state is signed; a commit leaves the nonce unchanged;
\* a request that is rejected (returns an error) leaves the nonce as it found it.
C3_NonceDiscipline ==
    /\ (last.op \in MutatingOps /\ last.result = "ok") =>
            /\ last.nonceAfter = last.nonceBefore + 1
            /\ \E st \in signedStates : st.agent = last.agent /\ st.nonce = last.nonceAfter
    /\ (last.op \in CommitOps /\ last.result = "ok") =>
            last.nonceAfter = last.nonceBefore
    /\ (last.op \in MutatingOps \cup CommitOps /\ last.result \notin {"ok", "suspended"}) =>
            last.nonceAfter = last.nonceBefore

-----------------------------------------------------------------------------
(* Properties of the settlement contract *)

SignedOps == {"closeChannel", "startChallenge", "counterChallenge"}

\* the digests the holder of key k has signed
DigestsSignedBy(k) == {p.sig.digest : p \in {q \in ChainPresented : q.sig.key = k}}

\* what lastSettle handed to each party, sent or credited for withdrawal
PaidAgent(x) == x.sentAgent + x.creditedAgent
PaidCasino(x) == x.sentCasino + x.creditedCasino

\* C4: signature validity on-chain. closeChannel, startChallenge and counterChallenge
\* accept a presented state (agent, agentBalance, casinoBalance, nonce) only if its
\* signature was made by the account that is the casino at the time of the call, over
\* exactly these four values, so a tuple the house never signed is never accepted;
\* a call that is rejected leaves the channel records unchanged.
C4_SignatureValidity ==
    [][ (lastCall' # lastCall /\ lastCall'.op \in SignedOps) =>
            /\ lastCall'.result = "ok" =>
                  /\ lastCall'.sig.key = casino
                  /\ lastCall'.sig.digest = <<lastCall'.agent, lastCall'.st.agentBalance,
                                              lastCall'.st.casinoBalance, lastCall'.st.nonce>>
                  /\ <<lastCall'.agent, lastCall'.st.agentBalance,
                       lastCall'.st.casinoBalance, lastCall'.st.nonce>>
                         \in DigestsSignedBy(casino)
            /\ lastCall'.result # "ok" => cm_channels' = cm_channels
      ]_vars

\* after the casino role was handed over, a state signed by the new casino was accepted
C4_Witness ==
    /\ lastCall.op \in SignedOps
    /\ lastCall.result = "ok"
    /\ casino = "house2"
    /\ lastCall.sig.key = "house2"

\* C5: on-chain conservation. Every channel record that is Open or Disputed has
\* agentBalance + casinoBalance equal to agentDeposit + casinoDeposit.
C5_OnChainConservation ==
    \A a \in ChainAgents :
        cm_channels[a].state \in {"Open", "Disputed"} =>
            cm_channels[a].agentBalance + cm_channels[a].casinoBalance
                = cm_channels[a].agentDeposit + cm_channels[a].casinoDeposit

\* a funded channel is in dispute over balances that differ from the deposits
C5_Witness ==
    \E a \in ChainAgents :
        /\ cm_channels[a].state = "Disputed"
        /\ cm_channels[a].casinoDeposit > 0
        /\ cm_channels[a].agentBalance # cm_channels[a].agentDeposit
        /\ lastCall.op = "counterChallenge"
        /\ lastCall.result = "ok"

\* C7: settlement math. Every settlement pays the agent exactly agentPayout, sends
\* floor(max(0, casinoPayout - casinoDeposit) * 1000 / 10000) to the insurance fund and
\* pays the casino casinoPayout less that amount; the three amounts add up to
\* agentDeposit + casinoDeposit, and the insurance is 0 when the casino made no profit.
C7_SettlementMath ==
    lastSettle # NoSettle =>
        LET x == lastSettle
            profit == IF x.casinoPayout - x.casinoDeposit > 0
                      THEN x.casinoPayout - x.casinoDeposit ELSE 0
            insurance == (profit * 1000) \div 10000
        IN  /\ PaidAgent(x) = x.agentPayout
            /\ x.sentInsurance = insurance
            /\ PaidCasino(x) = x.casinoPayout - insurance
            /\ PaidAgent(x) + x.sentInsurance + PaidCasino(x)
                   = x.agentDeposit + x.casinoDeposit
            /\ (x.casinoPayout <= x.casinoDeposit => x.sentInsurance = 0)

\* a settlement with a casino profit of 15 units, of which the floor of 1.5 is skimmed
C7_Witness ==
    /\ lastSettle.casinoPayout - lastSettle.casinoDeposit = 15
    /\ lastSettle.sentInsurance = 1
    /\ PaidCasino(lastSettle) = 114
    /\ PaidAgent(lastSettle) = 85

\* some presented state would be accepted by counterChallenge now
CounterEnabled(a) == \E p \in ChainPresented : counterChallengeError(a, p) = "ok"
\* resolveChallenge would be accepted now
ResolveEnabled(a) == resolveChallengeError(a) = "ok"

\* C8: dispute timing. counterChallenge is accepted only while the channel is Disputed,
\* strictly before disputeDeadline and with a nonce strictly greater than the stored
\* one; each accepted startChallenge or counterChallenge sets disputeDeadline to the
\* time of the call plus 1 day; resolveChallenge is accepted only for a Disputed channel
\* at or after disputeDeadline; at no time are both enabled for the same channel.
C8_DisputeTiming ==
    /\ [](\A a \in ChainAgents : ~(CounterEnabled(a) /\ ResolveEnabled(a)))
    /\ [][ lastCall' # lastCall /\ lastCall'.result = "ok" =>
             /\ lastCall'.op = "counterChallenge" =>
                   /\ cm_channels[lastCall'.agent].state = "Disputed"
                   /\ blockTimestamp < cm_channels[lastCall'.agent].disputeDeadline
                   /\ lastCall'.st.nonce > cm_channels[lastCall'.agent].nonce
             /\ lastCall'.op \in {"startChallenge", "counterChallenge"} =>
                   cm_channels'[lastCall'.agent].disputeDeadline
                       = blockTimestamp + 24 * 60 * 60
             /\ lastCall'.op = "resolveChallenge" =>
                   /\ cm_channels[lastCall'.agent].state = "Disputed"
                   /\ blockTimestamp >= cm_channels[lastCall'.agent].disputeDeadline
         ]_vars

\* a counter-challenge was accepted after the clock had advanced, and it moved the
\* deadline to one day after the call
C8_Witness ==
    /\ lastCall.op = "counterChallenge"
    /\ lastCall.result = "ok"
    /\ chainTicks > 0
    /\ cm_channels[lastCall.agent].disputeDeadline = blockTimestamp + 24 * 60 * 60

\* the accepted state with the highest nonce
Highest(states) == CHOOSE s \in states : \A t \in states : t.nonce <= s.nonce

\* C9: dispute outcome. While a channel record exists its stored nonce never decreases,
\* a Disputed record holds the state with the highest nonce among those startChallenge
\* and counterChallenge accepted in this dispute, and resolveChallenge settles at the
\* balances of that state.
C9_DisputeOutcome ==
    /\ [](\A a \in ChainAgents :
            cm_channels[a].state = "Disputed" =>
                /\ accepted[a] # {}
                /\ cm_channels[a].nonce = Highest(accepted[a]).nonce
                /\ cm_channels[a].agentBalance = Highest(accepted[a]).agentBalance
                /\ cm_channels[a].casinoBalance = Highest(accepted[a]).casinoBalance)
    /\ [][ /\ \A a \in ChainAgents :
                cm_channels'[a].state # "None" => cm_channels'[a].nonce >= cm_channels[a].nonce
           /\ (lastCall' # lastCall /\ lastCall'.op = "resolveChallenge"
                   /\ lastCall'.result = "ok") =>
                /\ lastSettle'.agentPayout = Highest(accepted[lastCall'.agent]).agentBalance
                /\ lastSettle'.casinoPayout = Highest(accepted[lastCall'.agent]).casinoBalance
         ]_vars

\* scenario S5: the dispute started at nonce 7, was countered at nonce 9 and was
\* resolved at the balances of nonce 9, 0.08 and 0.12 ether, with 0.002 ether skimmed
C9_Witness ==
    /\ lastCall.op = "resolveChallenge"
    /\ lastCall.result = "ok"
    /\ {s.nonce : s \in accepted[lastCall.agent]} = {7, 9}
    /\ lastSettle.agentPayout = 80
    /\ lastSettle.casinoPayout = 120
    /\ lastSettle.sentInsurance = 2

\* C10: emergencyExit guard. emergencyExit succeeds only if the caller's channel is
\* Open, its on-chain nonce is 0 and at least 1 hour has passed since openedAt; then it
\* settles at (agentDeposit, casinoDeposit); otherwise it reverts and nothing changes.
C10_EmergencyExitGuard ==
    [][ (lastCall' # lastCall /\ lastCall'.op = "emergencyExit") =>
           LET ch == cm_channels[lastCall'.agent]
               allowed == /\ ch.state = "Open"
                          /\ ch.nonce = 0
                          /\ blockTimestamp >= ch.openedAt + 60 * 60
           IN  /\ lastCall'.result = "ok" <=> allowed
               /\ lastCall'.result = "ok" =>
                     /\ lastSettle'.agentPayout = ch.agentDeposit
                     /\ lastSettle'.casinoPayout = ch.casinoDeposit
                     /\ cm_channels'[lastCall'.agent] = NoChannel
               /\ lastCall'.result # "ok" =>
                     UNCHANGED <<cm_channels, pendingWithdrawals, totalLocked, cm_balance,
                                 fund_balance, lastSettle>>
      ]_vars

\* a funded channel was left through emergencyExit, each side receiving its deposit
C10_Witness ==
    /\ lastCall.op = "emergencyExit"
    /\ lastCall.result = "ok"
    /\ lastSettle.casinoDeposit = 100
    /\ PaidAgent(lastSettle) = 100
    /\ PaidCasino(lastSettle) = 100
    /\ lastSettle.sentInsurance = 0

-----------------------------------------------------------------------------
(* Scenario S1 *)

\* C6: open and close with no games. For a channel opened and funded by the house with
\* no round played, the engine's close yields a signed state with nonce 0 and balances
\* equal to the deposits, and the on-chain closeChannel presented with that state
\* settles the channel, paying each side its deposit with insurance 0.
C6_OpenCloseNoGames ==
    /\ [](( last.op = "close_channel" /\ last.result = "ok" /\ last.nonceAfter = 0) =>
            \E s \in signedStates :
                /\ s.agent = last.agent
                /\ s.nonce = 0
                /\ s.agentBalance \in S1Deposits
                /\ s.casinoBalance \in S1Deposits)
    /\ [][ ( /\ lastCall' # lastCall
             /\ lastCall'.op = "closeChannel"
             /\ cm_channels[lastCall'.agent].state = "Open"
             /\ cm_channels[lastCall'.agent].casinoDeposit > 0
             /\ lastCall'.st = St(cm_channels[lastCall'.agent].agentDeposit,
                                  cm_channels[lastCall'.agent].casinoDeposit, 0)
             /\ \E p \in EnginePresented : p.st = lastCall'.st /\ p.sig = lastCall'.sig ) =>
                /\ lastCall'.result = "ok"
                /\ cm_channels'[lastCall'.agent] = NoChannel
                /\ PaidAgent(lastSettle') = cm_channels[lastCall'.agent].agentDeposit
                /\ PaidCasino(lastSettle') = cm_channels[lastCall'.agent].casinoDeposit
                /\ lastSettle'.sentInsurance = 0
         ]_vars

-----------------------------------------------------------------------------
(* Who can bring a channel to settlement *)

\* the states the current casino signed for agent a whose balances add up to the
\* deposits of a's channel
SignedFor(a) ==
    {p \in ChainPresented :
        /\ p.sig.key = casino
        /\ p.sig.digest = Digest(a, p.st.agentBalance, p.st.casinoBalance, p.st.nonce)
        /\ checkBalanceInvariant(cm_channels[a], p.st.agentBalance, p.st.casinoBalance)}

\* the latest of them
LatestSigned(a) == CHOOSE p \in SignedFor(a) : \A q \in SignedFor(a) : q.st.nonce <= p.st.nonce

\* every transaction account x can send to the ChannelManager
CallBy(x) ==
    \/ \E v \in OpenValues : openChannel(x, v)
    \/ \E a \in ChainAgents, v \in FundValues : fundCasinoSide(x, a, v)
    \/ \E p \in ChainPresented, s1, s2 \in BOOLEAN : closeChannel(x, p, s1, s2)
    \/ \E p \in ChainPresented : startChallenge(x, p)
    \/ \E a \in ChainAgents, p \in ChainPresented : counterChallenge(x, a, p)
    \/ \E a \in ChainAgents, s1, s2 \in BOOLEAN : resolveChallenge(x, a, s1, s2)
    \/ \E s1, s2 \in BOOLEAN : emergencyExit(x, s1, s2)
    \/ \E success \in BOOLEAN : withdrawPending(x, success)

\* account x has a transaction that takes a's channel out of Open (settles it or
\* opens a dispute over it)
CanStartSettlement(x, a) ==
    ENABLED (CallBy(x) /\ UNCHANGED engineVars /\ cm_channels'[a].state # "Open")

\* C11: either side can settle. For every Open, house-funded channel for which the
\* house has signed a state, the agent can start settlement by presenting the latest
\* house-signed state to closeChannel or startChallenge, and the house too has a
\* transaction that starts settlement of that channel.
C11_EitherSideCanSettle ==
    \A a \in ChainAgents :
        ( /\ cm_channels[a].state = "Open"
          /\ cm_channels[a].casinoDeposit > 0
          /\ SignedFor(a) # {} ) =>
            /\ \/ closeChannelError(a, LatestSigned(a)) = "ok"
               \/ startChallengeError(a, LatestSigned(a)) = "ok"
            /\ CanStartSettlement(a, a)
            /\ CanStartSettlement(casino, a)

\* the agent's half alone: it holds, the house's half is what fails
C11_AgentHalf ==
    \A a \in ChainAgents :
        ( /\ cm_channels[a].state = "Open"
          /\ cm_channels[a].casinoDeposit > 0
          /\ SignedFor(a) # {} ) =>
            /\ \/ closeChannelError(a, LatestSigned(a)) = "ok"
               \/ startChallengeError(a, LatestSigned(a)) = "ok"
            /\ CanStartSettlement(a, a)

-----------------------------------------------------------------------------
(* The bankroll *)

\* the channels that hold funds
Live == {a \in Agents : cm_channels[a].state \in {"Open", "Disputed"}}

RECURSIVE SumCasinoDeposit(_)
SumCasinoDeposit(as) ==
    IF as = {} THEN 0
    ELSE LET a == CHOOSE x \in as : TRUE
         IN  cm_channels[a].casinoDeposit + SumCasinoDeposit(as \ {a})

\* C12: bankroll cap. The casinoDeposits of all live channels add up to at most
\* maxExposure, also after setMaxExposure; a fundCasinoSide whose lockCollateral would
\* take totalLocked above maxExposure is rejected, and a settlement whose
\* unlockCollateral asks for more than totalLocked is rejected, each leaving totalLocked
\* unchanged.
C12_BankrollCap ==
    /\ [](SumCasinoDeposit(Live) <= maxExposure)
    /\ [][ lastCall' # lastCall =>
             /\ ( /\ lastCall'.op = "fundCasinoSide"
                  /\ lastCall'.sender = casino
                  /\ cm_channels[lastCall'.agent].state = "Open"
                  /\ \A v \in FundValues : totalLocked + v > maxExposure ) =>
                    (lastCall'.result = "ExposureLimitReached" /\ totalLocked' = totalLocked)
             /\ ( /\ lastCall'.op \in {"closeChannel", "emergencyExit", "resolveChallenge"}
                  /\ cm_channels[lastCall'.agent].casinoDeposit > totalLocked ) =>
                    (lastCall'.result # "ok" /\ totalLocked' = totalLocked)
         ]_vars

\* the two rejections alone
C12_Rejections ==
    [][ lastCall' # lastCall =>
             /\ ( /\ lastCall'.op = "fundCasinoSide"
                  /\ lastCall'.sender = casino
                  /\ cm_channels[lastCall'.agent].state = "Open"
                  /\ \A v \in FundValues : totalLocked + v > maxExposure ) =>
                    (lastCall'.result = "ExposureLimitReached" /\ totalLocked' = totalLocked)
             /\ ( /\ lastCall'.op \in {"closeChannel", "emergencyExit", "resolveChallenge"}
                  /\ cm_channels[lastCall'.agent].casinoDeposit > totalLocked ) =>
                    (lastCall'.result # "ok" /\ totalLocked' = totalLocked)
      ]_vars

-----------------------------------------------------------------------------
(* Pull payments *)

SettlingOps == {"closeChannel", "resolveChallenge", "emergencyExit"}

RECURSIVE SumPending(_)
SumPending(xs) ==
    IF xs = {} THEN 0
    ELSE LET x == CHOOSE y \in xs : TRUE
         IN  pendingWithdrawals[x] + SumPending(xs \ {x})

RECURSIVE SumDeposits(_)
SumDeposits(as) ==
    IF as = {} THEN 0
    ELSE LET a == CHOOSE x \in as : TRUE
         IN  cm_channels[a].agentDeposit + cm_channels[a].casinoDeposit
                + SumDeposits(as \ {a})

\* C13: pull-payment fallback. A settlement whose transfer to the agent or to the house
\* fails still completes: the channel is deleted, its collateral is unlocked, and the
\* payee's pendingWithdrawals grows by exactly the amount that was not transferred.
\* withdrawPending pays the caller exactly its pending amount and sets it to zero, and
\* a failed or empty withdrawal changes nothing; the contract always holds exactly the
\* deposits of the live channels plus all pending amounts, so nothing is paid twice.
C13_PullPayment ==
    /\ [](cm_balance = SumDeposits(Live) + SumPending(Accounts))
    /\ [][ lastCall' # lastCall =>
             /\ (lastCall'.op \in SettlingOps /\ lastCall'.result = "ok") =>
                  LET a == lastCall'.agent
                      x == lastSettle'
                      net == x.casinoPayout - x.sentInsurance
                      dAgent == pendingWithdrawals'[a] - pendingWithdrawals[a]
                      dCasino == pendingWithdrawals'[casino] - pendingWithdrawals[casino]
                  IN  /\ cm_channels'[a] = NoChannel
                      /\ totalLocked' = totalLocked - cm_channels[a].casinoDeposit
                      /\ dAgent \in {0, x.agentPayout}
                      /\ dCasino \in {0, net}
                      /\ cm_balance - cm_balance'
                            = x.sentInsurance + (x.agentPayout - dAgent) + (net - dCasino)
                      /\ \A y \in Accounts \ {a, casino} :
                            pendingWithdrawals'[y] = pendingWithdrawals[y]
             /\ lastCall'.op = "withdrawPending" =>
                  IF lastCall'.result = "ok"
                  THEN /\ pendingWithdrawals[lastCall'.sender] > 0
                       /\ cm_balance - cm_balance' = pendingWithdrawals[lastCall'.sender]
                       /\ pendingWithdrawals' =
                              [pendingWithdrawals EXCEPT ![lastCall'.sender] = 0]
                  ELSE /\ pendingWithdrawals' = pendingWithdrawals
                       /\ cm_balance' = cm_balance
         ]_vars

\* the transfer to the agent failed at settlement, the agent has withdrawn the amount
\* since, and nothing is pending for it any more
C13_Witness ==
    /\ lastCall.op = "withdrawPending"
    /\ lastCall.result = "ok"
    /\ lastCall.sender = lastSettle.agent
    /\ lastSettle.creditedAgent > 0
    /\ lastSettle.sentAgent = 0
    /\ pendingWithdrawals[lastCall.sender] = 0


-----------------------------------------------------------------------------
(* C14: single pending commit *)

CommitGames == {"slots", "coinflip"}

\* a commit call of agent a to game g with any bet, choice and casino seed
CommitCall(a, g) ==
    \E b \in BetAmounts, c \in BetChoices, sd \in Seeds :
        IF g = "slots" THEN Slots_commit(a, b, sd) ELSE Coinflip_commit(a, b, c, sd)

\* some call of CommitCall(a, g) passes the game's own checks of choice and bet
ValidCommitExists(a, g) ==
    /\ a \in DOMAIN channels
    /\ \E b \in BetAmounts :
          validateBet(channels[a], b,
                      IF g = "slots" THEN SlotsMaxMultiplier ELSE CoinflipMaxMultiplier) = "ok"

\* C14: there is at most one pending commit per agent and game: while one exists, no
\* commit of that agent to that game changes anything (so the pending seed, bet and
\* timestamp stay as they are), and a commit of the same agent to the other game is
\* accepted, stores its own pending commit and leaves the first one as it is.
C14_SinglePendingCommit ==
    \A a \in EngineAgents, g \in CommitGames :
        <<a, g>> \in DOMAIN pendingCommits =>
            /\ ~ENABLED (CommitCall(a, g) /\ UNCHANGED chainVars /\ engineVars' # engineVars)
            /\ \A h \in CommitGames \ {g} :
                  (<<a, h>> \notin DOMAIN pendingCommits /\ ValidCommitExists(a, h)) =>
                      ENABLED (/\ CommitCall(a, h)
                               /\ UNCHANGED chainVars
                               /\ <<a, h>> \in DOMAIN pendingCommits'
                               /\ pendingCommits'[<<a, g>>] = pendingCommits[<<a, g>>])

\* both games hold a pending commit of the same agent, made at different times
C14_Witness ==
    \E a \in EngineAgents :
        /\ <<a, "slots">> \in DOMAIN pendingCommits
        /\ <<a, "coinflip">> \in DOMAIN pendingCommits
        /\ pendingCommits[<<a, "slots">>].timestamp
               # pendingCommits[<<a, "coinflip">>].timestamp


-----------------------------------------------------------------------------
(* C15: commit expiry *)

RevealOp(g) == IF g = "slots" THEN "slots_reveal" ELSE "coinflip_reveal"

\* a reveal call of agent a to game g with any outcome of the hash
RevealCall(a, g) ==
    IF g = "slots" THEN \E r \in BetSpinWords : Slots_reveal(a, r[1], r[2], r[3])
    ELSE \E r0 \in BetRngSamples : Coinflip_reveal(a, r0)

Expired(a, g) ==
    /\ a \in DOMAIN channels
    /\ <<a, g>> \in DOMAIN pendingCommits
    /\ now - pendingCommits[<<a, g>>].timestamp > COMMIT_TIMEOUT

\* C15: a reveal more than 5 minutes after its commit is rejected with "Commitment
\* expired": it leaves the channel's balances and nonce as they were and removes the
\* pending commit; in the state it leaves, a valid commit to the same game is accepted.
C15_CommitExpiry ==
    \A a \in EngineAgents, g \in CommitGames :
        /\ Expired(a, g) =>
              /\ ENABLED (RevealCall(a, g) /\ UNCHANGED chainVars)
              /\ ~ENABLED (/\ RevealCall(a, g)
                           /\ UNCHANGED chainVars
                           /\ ~ /\ last' = Returned(RevealOp(g), a, "Commitment expired",
                                                     channels[a].nonce, channels[a].nonce)
                                 /\ channels' = channels
                                 /\ inflight' = inflight
                                 /\ pendingCommits' = MapDelete(pendingCommits, <<a, g>>))
        /\ (/\ last.op = RevealOp(g) /\ last.agent = a
             /\ last.result = "Commitment expired"
             /\ ValidCommitExists(a, g)) =>
                ENABLED (/\ CommitCall(a, g)
                         /\ UNCHANGED chainVars
                         /\ <<a, g>> \in DOMAIN pendingCommits'
                         /\ pendingCommits'[<<a, g>>].timestamp = now)

\* an expired reveal has just been rejected, one millisecond past the timeout
C15_Witness ==
    \E a \in EngineAgents :
        /\ last.op = "slots_reveal" /\ last.agent = a
        /\ last.result = "Commitment expired"
        /\ <<a, "slots">> \notin DOMAIN pendingCommits
        /\ now = COMMIT_TIMEOUT + 1


-----------------------------------------------------------------------------
(* C16: bet validation *)

MaxMultiplierOf(g) == IF g = "slots" THEN SlotsMaxMultiplier ELSE CoinflipMaxMultiplier

\* the largest bet the bankroll limit allows: casinoBalance / (maxMultiplier * 2)
MaxBetWei(ch, g) == ch.casinoBalance \div (MaxMultiplierOf(g) * 2)

\* the bets that are tried in a state: the requested ones, and those at and one wei
\* beyond the agent's balance and the bankroll limit
CheckedBets(ch, g) ==
    BetAmounts \cup {ch.agentBalance, ch.agentBalance + 1,
                     MaxBetWei(ch, g), MaxBetWei(ch, g) + 1}

\* the commit of bet b by agent a to game g is accepted
CommitAccepted(a, g, b) ==
    ENABLED (/\ IF g = "slots" THEN Slots_commit(a, b, "s1")
                ELSE Coinflip_commit(a, b, "heads", "s1")
             /\ UNCHANGED chainVars
             /\ <<a, g>> \in DOMAIN pendingCommits'
             /\ pendingCommits'[<<a, g>>].betWei = b)

\* C16: a slots or coinflip commit (of an agent with no pending commit in that game)
\* passes validation if and only if bet > 0, agentBalance >= bet and
\* bet * maxMultiplier * 2 <= casinoBalance, with maxMultiplier 290 for slots and 2
\* for coinflip; the bet floor(casinoBalance / (maxMultiplier * 2)) is accepted when it
\* is positive and within the agent's balance, and that bet plus 1 wei is rejected.
C16_BetValidation ==
    \A a \in DOMAIN channels, g \in CommitGames :
        <<a, g>> \notin DOMAIN pendingCommits =>
            LET ch == channels[a]
                m == IF g = "slots" THEN 290 ELSE 2
                top == ch.casinoBalance \div (m * 2)
            IN  /\ \A b \in CheckedBets(ch, g) :
                      CommitAccepted(a, g, b) <=>
                          (b > 0 /\ ch.agentBalance >= b /\ b * m * 2 <= ch.casinoBalance)
                /\ (top > 0 /\ ch.agentBalance >= top) => CommitAccepted(a, g, top)
                /\ ~CommitAccepted(a, g, top + 1)

\* in both games the bet that exactly exhausts the bankroll limit has been accepted:
\* 1 wei against 850 / 580 in slots, 212 wei against 850 / 4 in coinflip
C16_Witness ==
    \E a \in DOMAIN channels :
        /\ <<a, "coinflip">> \in DOMAIN pendingCommits
        /\ pendingCommits[<<a, "coinflip">>].betWei = MaxBetWei(channels[a], "coinflip")
        /\ <<a, "slots">> \in DOMAIN pendingCommits
        /\ pendingCommits[<<a, "slots">>].betWei = MaxBetWei(channels[a], "slots")


-----------------------------------------------------------------------------
(* C17: coinflip payout *)

\* a coinflip commit of agent a that a reveal would resolve now
Revealable(a) ==
    /\ a \in DOMAIN channels
    /\ <<a, "coinflip">> \in DOMAIN pendingCommits
    /\ now - pendingCommits[<<a, "coinflip">>].timestamp <= COMMIT_TIMEOUT
    /\ channels[a].agentBalance >= pendingCommits[<<a, "coinflip">>].betWei

\* the first 32 bits of the result hash decide for the agent's choice
Won(a, r0) == (IF r0 % 2 = 0 THEN "heads" ELSE "tails") = pendingCommits[<<a, "coinflip">>].choice

\* the reveal of agent a with hash word r0 leaves a's channel with the balances
\* that the payout `pay` gives, and the nonce one higher
RevealPays(a, r0, pay) ==
    LET bet == pendingCommits[<<a, "coinflip">>].betWei
        ch == channels[a]
        paid == /\ channels'[a].agentBalance = ch.agentBalance - bet + pay
                /\ channels'[a].casinoBalance = ch.casinoBalance + bet - pay
                /\ channels'[a].nonce = ch.nonce + 1
    IN  /\ ENABLED (Coinflip_reveal(a, r0) /\ UNCHANGED chainVars /\ paid)
        /\ ~ENABLED (Coinflip_reveal(a, r0) /\ UNCHANGED chainVars /\ ~paid)

\* C17: a won coinflip reveal pays min(floor(bet * 19 / 10), casinoBalance + bet), a
\* lost one pays 0; the reveal sets agentBalance to agentBalance - bet + payout and
\* casinoBalance to casinoBalance + bet - payout; a won 1-wei bet pays exactly 1 wei.
C17_CoinflipPayout ==
    \A a \in EngineAgents : Revealable(a) =>
        LET bet == pendingCommits[<<a, "coinflip">>].betWei
            cap == channels[a].casinoBalance + bet
        IN  \A r0 \in BetRngSamples :
                /\ Won(a, r0) => RevealPays(a, r0, Min((bet * 19) \div 10, cap))
                /\ ~Won(a, r0) => RevealPays(a, r0, 0)
                /\ (Won(a, r0) /\ bet = 1) => RevealPays(a, r0, 1)

\* a won reveal has paid out the capped amount: the 1160 wei bet was committed
\* against 4640 wei of the house, three slots jackpots then took all but 594 of them,
\* and the win paid 594 + 1160 instead of floor(1160 * 19 / 10) = 2204
C17_Witness ==
    \E a \in DOMAIN channels :
        /\ last.op = "coinflip_reveal" /\ last.agent = a /\ last.result = "suspended"
        /\ <<a, "coinflip">> \in DOMAIN pendingCommits
        /\ pendingCommits[<<a, "coinflip">>].betWei = 1160
        /\ channels[a].casinoBalance = 0
        /\ channels[a].agentBalance = channels[a].agentDeposit + channels[a].casinoDeposit


-----------------------------------------------------------------------------
(* C18: lotto buy limits *)

\* the engine's state without the record of the last request
EngineState == <<channels, pendingCommits, draws, currentDrawId, unclaimedWinnings,
                 now, inflight, signedStates, nextInst, ticks>>

\* the tickets agent a holds in draw d
TicketsOf(d, a) == MapGet(d.tickets, a, <<>>)

\* a purchase the claim's list turns away
BuyRefused(a, n, k) ==
    \/ n \notin 1..100
    \/ k \notin 1..10
    \/ Len(TicketsOf(draws[currentDrawId], a)) + k > 10
    \/ channels[a].agentBalance < TICKET_PRICE * k
    \/ TICKET_PRICE * 85 * k > channels[a].casinoBalance

\* what an accepted purchase does: the cost moves from the agent to the house and
\* k tickets on number n are added to what the agent holds in the current draw
Bought(a, n, k) ==
    /\ channels'[a].agentBalance = channels[a].agentBalance - TICKET_PRICE * k
    /\ channels'[a].casinoBalance = channels[a].casinoBalance + TICKET_PRICE * k
    /\ currentDrawId' = currentDrawId
    /\ TicketsOf(draws'[currentDrawId], a) =
           Push(TicketsOf(draws[currentDrawId], a), n, k)

BuyLimits(picked) ==
    \A a \in DOMAIN channels, n \in picked, k \in LottoCounts \cup {1, 10} :
        IF BuyRefused(a, n, k)
        THEN ~ENABLED (Lotto_buy(a, n, k) /\ UNCHANGED chainVars
                       /\ EngineState' # EngineState)
        ELSE /\ ENABLED (Lotto_buy(a, n, k) /\ UNCHANGED chainVars /\ Bought(a, n, k))
             /\ ~ENABLED (Lotto_buy(a, n, k) /\ UNCHANGED chainVars /\ ~Bought(a, n, k))

TicketCap ==
    \A d \in DOMAIN draws : \A a \in DOMAIN draws[d].tickets :
        Len(draws[d].tickets[a]) <= 10

\* C18: a lotto buy is rejected, changing nothing, when pickedNumber is outside
\* 1..100, ticketCount is outside 1..10, the agent's tickets in the current draw plus
\* ticketCount exceed 10, agentBalance < ticketPrice * ticketCount, or
\* ticketPrice * 85 * ticketCount > casinoBalance; otherwise it moves exactly
\* ticketPrice * ticketCount from agent to house and adds ticketCount tickets; no
\* agent ever holds more than 10 tickets in one draw.
C18_LottoBuyLimits == BuyLimits(LottoPicked) /\ TicketCap

\* the same for requests whose pickedNumber is a number
C18_NumericPick == BuyLimits(LottoPicked \ {NotANumber}) /\ TicketCap


-----------------------------------------------------------------------------
(* C19: draw execution *)

\* what executeDraw(d, w) does to an undrawn draw: the draw is marked drawn with
\* the winning number, every agent's unclaimed winnings grow by 85 ticket prices per
\* matching ticket, and no channel changes
Drawn(d, w) ==
    LET winningNumber == (w % 100) + 1
    IN  /\ winningNumber \in 1..100
        /\ draws'[d].drawn
        /\ draws'[d].winningNumber = winningNumber
        /\ draws'[d].tickets = draws[d].tickets
        /\ \A a \in LottoAgents :
              MapGet(unclaimedWinnings', a, 0) =
                  MapGet(unclaimedWinnings, a, 0)
                  + TICKET_PRICE * 85 * MatchCount(TicketsOf(draws[d], a), winningNumber)
        /\ channels' = channels

\* C19: executeDraw on an undrawn draw marks it drawn with a winningNumber in 1..100
\* and adds ticketPrice * 85 * (the agent's tickets equal to winningNumber) to each
\* agent's unclaimed winnings without changing any channel's balances or nonce;
\* executeDraw on a drawn draw is rejected and changes nothing, and the scheduler
\* never picks a drawn draw, so each draw pays out at most once.
C19_DrawExecution ==
    /\ \A d \in DOMAIN draws, w \in LottoWords \cup {0} :
          IF draws[d].drawn
          THEN ~ENABLED (Lotto_executeDraw(d, w) /\ UNCHANGED chainVars
                         /\ EngineState' # EngineState)
          ELSE /\ ENABLED (Lotto_executeDraw(d, w) /\ UNCHANGED chainVars /\ Drawn(d, w))
               /\ ~ENABLED (Lotto_executeDraw(d, w) /\ UNCHANGED chainVars
                             /\ ~Drawn(d, w))
    /\ \A d \in getPendingDraws : ~draws[d].drawn

\* a draw with a winner has been executed while another agent held losing tickets,
\* and the winner still has unclaimed winnings
C19_Witness ==
    \E d \in DOMAIN draws, a, b \in LottoAgents :
        /\ draws[d].drawn
        /\ MatchCount(TicketsOf(draws[d], a), draws[d].winningNumber) > 0
        /\ Len(TicketsOf(draws[d], b)) > 0
        /\ MatchCount(TicketsOf(draws[d], b), draws[d].winningNumber) = 0
        /\ MapGet(unclaimedWinnings, a, 0) > 0


-----------------------------------------------------------------------------
(* C20: unclaimed winnings outlive the channel *)

\* the calls that close or open agent a's channel, with every outcome of the signer
CloseOrOpen(a) ==
    \/ Engine_closeChannel(a)
    \/ \E c \in inflight, ok \in BOOLEAN :
          c.op = "close_channel" /\ c.agent = a /\ SignReturn(c, ok)
    \/ \E o \in LottoOpenings : o[1] = a /\ Engine_openChannel(o[1], o[2], o[3])

\* what a claim does: min(unclaimed, casinoBalance) moves from the house to the agent,
\* the rest stays unclaimed, the nonce grows by 1
Claimed(a) ==
    LET ch == channels[a]
        unclaimed == MapGet(unclaimedWinnings, a, 0)
        amount == Min(unclaimed, ch.casinoBalance)
    IN  /\ channels'[a].agentBalance = ch.agentBalance + amount
        /\ channels'[a].casinoBalance = ch.casinoBalance - amount
        /\ channels'[a].nonce = ch.nonce + 1
        /\ MapGet(unclaimedWinnings', a, 0) = unclaimed - amount
        /\ \A b \in LottoAgents \ {a} :
              MapGet(unclaimedWinnings', b, 0) = MapGet(unclaimedWinnings, b, 0)

\* C20: winnings accrued for an agent stay in the unclaimed winnings across closing
\* the channel and opening a later one; a lotto claim in the agent's current channel
\* moves exactly min(unclaimed, casinoBalance) from house to agent, leaves unclaimed
\* minus that amount as the new unclaimed balance, and increments the nonce by 1.
C20_UnclaimedOutlivesChannel ==
    \A a \in LottoAgents :
        /\ ~ENABLED (CloseOrOpen(a) /\ UNCHANGED chainVars
                      /\ unclaimedWinnings' # unclaimedWinnings)
        /\ (a \in DOMAIN channels /\ MapGet(unclaimedWinnings, a, 0) > 0) =>
              /\ ENABLED (Lotto_claim(a) /\ UNCHANGED chainVars /\ Claimed(a))
              /\ ~ENABLED (Lotto_claim(a) /\ UNCHANGED chainVars /\ ~Claimed(a))

\* winnings of 85 * 4 from a draw that ran after the channel was closed have been
\* claimed in the agent's second channel, whose house side held only 300: 300 were
\* paid and 40 are still unclaimed
C20_Witness ==
    \E a \in DOMAIN channels :
        /\ channels[a].inst = 2
        /\ last.op = "lotto_claim" /\ last.agent = a
        /\ channels[a].nonce = 1
        /\ channels[a].casinoBalance = 0
        /\ channels[a].agentBalance = channels[a].agentDeposit + channels[a].casinoDeposit
        /\ MapGet(unclaimedWinnings, a, 0) = 40


-----------------------------------------------------------------------------
(* C21: scheduled winnings are credited once *)

\* what the draws 1..id that were executed have accrued to agent a
RECURSIVE AccruedUpTo(_, _)
AccruedUpTo(id, a) ==
    IF id < 1 THEN 0
    ELSE AccruedUpTo(id - 1, a)
         + (IF draws[id].drawn
            THEN TICKET_PRICE * PAYOUT_MULTIPLIER
                 * MatchCount(TicketsOf(draws[id], a), draws[id].winningNumber)
            ELSE 0)

\* what agent a has paid for tickets in the draws 1..id
RECURSIVE PaidUpTo(_, _)
PaidUpTo(id, a) ==
    IF id < 1 THEN 0
    ELSE PaidUpTo(id - 1, a) + TICKET_PRICE * Len(TicketsOf(draws[id], a))

\* what claim and applyWinnings have credited to a's channel: lotto is the only game
\* played in it, so it is the agent's balance plus the tickets paid minus the deposit
CreditedTo(a) ==
    IF a \in DOMAIN channels
    THEN channels[a].agentBalance + PaidUpTo(currentDrawId, a) - channels[a].agentDeposit
    ELSE 0

\* the step ran applyWinnings for agent a up to its await
AppliesTo(a) ==
    \E c \in inflight' \ inflight : c.op = "applyWinnings" /\ c.agent = a

\* C21: every time applyWinnings credits an amount c to an agent's channel, the agent's
\* unclaimed winnings decrease by exactly c (counted from what the draw of the same
\* scheduler run accrued) and conservation holds; in every interleaving of the
\* scheduler with lotto claims the total credited to an agent's channel by claim and
\* applyWinnings never exceeds the total accrued to that agent by executed draws.
C21_CreditedOnce ==
    /\ [](\A a \in LottoAgents : CreditedTo(a) <= AccruedUpTo(currentDrawId, a))
    /\ [][\A a \in LottoAgents : AppliesTo(a) =>
            /\ invariantOk(channels'[a])
            /\ MapGet(unclaimedWinnings', a, 0)
                   = MapGet(unclaimedWinnings, a, 0)
                     + (AccruedUpTo(currentDrawId, a)' - AccruedUpTo(currentDrawId, a))
                     - (channels'[a].agentBalance - channels[a].agentBalance)]_vars


-----------------------------------------------------------------------------
(* C22: close refuses a broken invariant *)

\* the close of a's channel asks the signer for the channel's current state
CloseRequested(a) ==
    /\ channels' = channels
    /\ \E c \in inflight' \ inflight :
          c.op = "close_channel" /\ c.agent = a /\ c.sig = StateOf(channels[a])

\* the signer's answer ends the close: the state is signed and the channel removed
CloseDone(c) ==
    /\ c.sig \in signedStates'
    /\ c.agent \notin DOMAIN channels'
    /\ last'.op = "close_channel" /\ last'.agent = c.agent /\ last'.result = "ok"
    /\ last'.nonceBefore = c.sig.nonce /\ last'.nonceAfter = c.sig.nonce

\* C22: if a channel's agentBalance + casinoBalance differs from agentDeposit +
\* casinoDeposit, the channel status reports invariantOk = false and closeChannel
\* fails, requests no signature and leaves the channel in the table; when the
\* invariant holds, closeChannel has the channel's current balances and nonce signed
\* and, when the signature arrives, removes the channel.
C22_CloseRefusesBrokenInvariant ==
    /\ \A a \in DOMAIN channels :
          LET ch == channels[a]
              broken == ch.agentBalance + ch.casinoBalance
                          # ch.agentDeposit + ch.casinoDeposit
          IN  /\ getChannelStatus(a).invariantOk = ~broken
              /\ broken =>
                    ~ENABLED (Engine_closeChannel(a) /\ UNCHANGED chainVars
                              /\ <<channels, inflight, signedStates>>'
                                    # <<channels, inflight, signedStates>>)
              /\ ~broken =>
                    /\ ENABLED (Engine_closeChannel(a) /\ UNCHANGED chainVars
                                 /\ CloseRequested(a))
                    /\ ~ENABLED (Engine_closeChannel(a) /\ UNCHANGED chainVars
                                  /\ ~CloseRequested(a))
    /\ \A c \in inflight : c.op = "close_channel" =>
          /\ ENABLED (SignReturn(c, TRUE) /\ UNCHANGED chainVars /\ CloseDone(c))
          /\ ~ENABLED (SignReturn(c, TRUE) /\ UNCHANGED chainVars /\ ~CloseDone(c))

\* one agent's close has returned and removed its channel while the other agent's
\* channel, 1 ether above its deposits after a purchase, is still in the table and
\* nothing was signed for its balances
C22_Witness ==
    \E a, b \in LottoAgents :
        /\ last.op = "close_channel" /\ last.agent = a /\ last.result = "ok"
        /\ last.nonceBefore = 1 /\ last.nonceAfter = 1
        /\ a \notin DOMAIN channels
        /\ b \in DOMAIN channels
        /\ channels[b].nonce = 1
        /\ ~getChannelStatus(b).invariantOk
        /\ \A st \in signedStates :
              st.agent = b => st.agentBalance # channels[b].agentBalance


-----------------------------------------------------------------------------
(* C23: channel opening *)

\* the request for spelling s with deposits ad, cd created the channel
Opened(s, ad, cd) ==
    /\ DOMAIN channels' = DOMAIN channels \cup {s}
    /\ channels'[s].agentBalance = ad /\ channels'[s].casinoBalance = cd
    /\ channels'[s].agentDeposit = ad /\ channels'[s].casinoDeposit = cd
    /\ channels'[s].nonce = 0
    /\ \A t \in DOMAIN channels : channels'[t] = channels[t]

\* C23: open_channel is rejected, changing nothing, when the agent account already
\* has a channel or when 50 channels exist; otherwise it creates a channel with
\* balances equal to the deposits and nonce 0; at all times the table holds at most
\* one channel per agent account and at most 50 channels.
C23_ChannelOpening ==
    /\ \A s \in Spellings :
          IF \/ \E t \in DOMAIN channels : AccountOf(t) = AccountOf(s)
             \/ Cardinality(DOMAIN channels) >= 50
          THEN ~ENABLED (A2A_openChannel(s, 10, 10) /\ UNCHANGED chainVars
                         /\ <<channels, pendingCommits, draws, unclaimedWinnings>>'
                               # <<channels, pendingCommits, draws, unclaimedWinnings>>)
          ELSE /\ ENABLED (A2A_openChannel(s, 10, 10) /\ UNCHANGED chainVars
                            /\ Opened(s, 10, 10))
               /\ ~ENABLED (A2A_openChannel(s, 10, 10) /\ UNCHANGED chainVars
                             /\ ~Opened(s, 10, 10))
    /\ Cardinality(DOMAIN channels) <= 50
    /\ \A s, t \in DOMAIN channels : AccountOf(s) = AccountOf(t) => s = t

\* the limit of 50 channels by itself
C23_MaxChannels ==
    /\ Cardinality(DOMAIN channels) <= 50
    /\ Cardinality(DOMAIN channels) >= 50 =>
          \A s \in Spellings :
              ~ENABLED (A2A_openChannel(s, 10, 10) /\ UNCHANGED chainVars
                        /\ channels' # channels)

\* 50 channels are open
C23_Full == Cardinality(DOMAIN channels) = 50


-----------------------------------------------------------------------------
(* C24: rollback on signing failure *)

\* the channel of the request that returned last is as that request found it; what it
\* found is known from the state alone when the nonce it found was 0: a channel at its
\* deposits and, for the first channel object of the engine, an agent without tickets
\* and without unclaimed winnings
AsBeforeLast ==
    LET ch == channels[last.agent]
    IN  /\ ch.nonce = last.nonceBefore
        /\ last.nonceBefore = 0 =>
              /\ ch.agentBalance = ch.agentDeposit
              /\ ch.casinoBalance = ch.casinoDeposit
              /\ ch.inst = 1 =>
                    /\ TicketsOf(draws[currentDrawId], last.agent) = <<>>
                    /\ MapGet(unclaimedWinnings, last.agent, 0) = 0

\* C24: if the signer fails during a slots reveal, a coinflip reveal, a lotto buy, a
\* lotto claim or applyWinnings, the action fails and the channel's balances and
\* nonce, the agent's lotto tickets and its unclaimed winnings are exactly as they
\* were before the action.
C24_RollbackOnSigningFailure ==
    (/\ last.op \in MutatingOps
     /\ last.result = "Signer failed"
     /\ last.agent \in DOMAIN channels) => AsBeforeLast


-----------------------------------------------------------------------------
(* C25: rejections change nothing *)

\* the request op of agent a returned an error other than the expiry of its commit
\* and the failure of the signer
Rejected(op, a) ==
    /\ last.op = op /\ last.agent = a
    /\ last.result \notin {"ok", "suspended", "Commitment expired", "Signer failed"}

Tables == <<channels, pendingCommits, draws, unclaimedWinnings>>

\* request A of agent a under the name op cannot be rejected and change a table
NoChangeWhenRejected(A, op, a) ==
    ~ENABLED (A /\ UNCHANGED chainVars /\ Rejected(op, a)' /\ Tables' # Tables)

\* C25: every action rejected with a validation or policy error (bad amount, bad
\* choice, bad pick, non-positive bet, duplicate channel, channel not found,
\* insufficient balance at commit, buy or reveal, bankroll limit, pending commit
\* exists, ticket limit, house cannot cover) leaves the channel table, the pending
\* commits, the lotto tickets and the unclaimed winnings unchanged.
C25_RejectionsChangeNothing ==
    \A a \in EngineAgents :
        /\ \A ad \in AgentDeposits, cd \in CasinoDeposits :
              NoChangeWhenRejected(Engine_openChannel(a, ad, cd), "open_channel", a)
        /\ NoChangeWhenRejected(Engine_closeChannel(a), "close_channel", a)
        /\ \A b \in Bets, sd \in FirstSeed :
              NoChangeWhenRejected(Slots_commit(a, b, sd), "slots_commit", a)
        /\ \A b \in Bets, c \in Choices, sd \in FirstSeed :
              NoChangeWhenRejected(Coinflip_commit(a, b, c, sd), "coinflip_commit", a)
        /\ \A r \in SpinWords :
              NoChangeWhenRejected(Slots_reveal(a, r[1], r[2], r[3]), "slots_reveal", a)
        /\ \A r0 \in RngSamples :
              NoChangeWhenRejected(Coinflip_reveal(a, r0), "coinflip_reveal", a)
        /\ \A n \in PickedNumbers, k \in TicketCounts :
              NoChangeWhenRejected(Lotto_buy(a, n, k), "lotto_buy", a)
        /\ NoChangeWhenRejected(Lotto_claim(a), "lotto_claim", a)


-----------------------------------------------------------------------------
(* C26: ownership handover *)

\* the call A can return
Succeeds(A) == ENABLED (A /\ UNCHANGED engineVars /\ lastCall'.result = "ok")

\* the call A cannot return with an effect other than E
OnlyWith(A, E) == ~ENABLED (A /\ UNCHANGED engineVars /\ lastCall'.result = "ok" /\ ~E)

\* the call A is refused because its sender is not the casino
RefusedAsStranger(A) ==
    ~ENABLED (A /\ UNCHANGED engineVars /\ lastCall'.result # "NotCasino")

\* the call A is not refused for its sender
AllowedAsOwner(A) ==
    ~ENABLED (A /\ UNCHANGED engineVars /\ lastCall'.result = "NotCasino")

HandoverRules ==
    /\ \A s \in Callers :
          /\ Succeeds(acceptCasino(s)) <=>
                /\ s = pendingCasino
                /\ blockTimestamp >= transferRequestTime + 172800
                /\ totalLocked = 0
          /\ OnlyWith(acceptCasino(s),
                      casino' = s /\ pendingCasino' = ZeroAddress
                      /\ totalLocked' = totalLocked)
          /\ OnlyWith(cancelTransferCasino(s),
                      s = casino /\ casino' = casino /\ pendingCasino' = ZeroAddress)
          /\ \A new \in OwnCandidates :
                /\ totalLocked > 0 => ~Succeeds(transferCasino(s, new))
                /\ OnlyWith(transferCasino(s, new),
                            s = casino /\ casino' = casino /\ pendingCasino' = new
                            /\ transferRequestTime' = blockTimestamp)
    /\ \A s \in Callers \ {casino} :
          /\ RefusedAsStranger(pause(s)) /\ RefusedAsStranger(unpause(s))
          /\ RefusedAsStranger(cancelTransferCasino(s))
          /\ \A new \in OwnCandidates : RefusedAsStranger(transferCasino(s, new))
          /\ \A a \in ChainAgents, v \in FundValues :
                RefusedAsStranger(fundCasinoSide(s, a, v))
    /\ AllowedAsOwner(pause(casino)) /\ AllowedAsOwner(unpause(casino))
    /\ Succeeds(pause(casino)) \/ Succeeds(unpause(casino))
    /\ AllowedAsOwner(cancelTransferCasino(casino))
    /\ \A new \in OwnCandidates : AllowedAsOwner(transferCasino(casino, new))
    /\ \A a \in ChainAgents, v \in FundValues : AllowedAsOwner(fundCasinoSide(casino, a, v))

\* only the three calls of the handover touch its state
HandoverFrame ==
    <<casino, pendingCasino, transferRequestTime>>'
        # <<casino, pendingCasino, transferRequestTime>> =>
    /\ lastCall'.op \in {"transferCasino", "acceptCasino", "cancelTransferCasino"}
    /\ lastCall'.result = "ok"

\* C26: acceptCasino succeeds only for the pending casino, at least 2 days after the
\* most recent transferCasino, with no cancellation since and with no collateral
\* locked; transferCasino is rejected while collateral is locked; after an
\* acceptance the old owner is refused every owner-only operation and the new owner
\* is allowed them.
C26_OwnershipHandover == []HandoverRules /\ [][HandoverFrame]_vars

\* the role went to house2, which paused the contract; the old owner's pause is
\* refused
C26_Witness ==
    /\ casino = "house2" /\ paused
    /\ lastCall.op = "pause" /\ lastCall.sender = "house"
    /\ lastCall.result = "NotCasino"


-----------------------------------------------------------------------------
(* C27: insurance withdrawal timelock *)

WithdrawalRules ==
    /\ \A s \in FundSenders, success \in BOOLEAN :
          /\ Succeeds(executeWithdrawal(s, success)) =>
                /\ withdrawalRequest.amount # 0
                /\ blockTimestamp >= withdrawalRequest.requestTime + 259200
          /\ OnlyWith(executeWithdrawal(s, success),
                      /\ fund_balance - fund_balance' = withdrawalRequest.amount
                      /\ withdrawalRequest.amount <= fund_balance
                      /\ withdrawalRequest' = NoWithdrawal)
    /\ \A s \in FundSenders : OnlyWith(cancelWithdrawal(s), withdrawalRequest' = NoWithdrawal)
    /\ \A s \in FundSenders, amount \in FundAmounts, to \in FundRecipients :
          OnlyWith(requestWithdrawal(s, amount, to),
                   /\ withdrawalRequest'.amount = amount /\ withdrawalRequest'.to = to
                   /\ withdrawalRequest'.requestTime = blockTimestamp)
    /\ fund_balance >= 0

\* the request changes only by the three calls, and the fund pays only by an execution
WithdrawalFrame ==
    /\ withdrawalRequest' # withdrawalRequest =>
          /\ lastCall'.op \in {"requestWithdrawal", "executeWithdrawal", "cancelWithdrawal"}
          /\ lastCall'.result = "ok"
    /\ fund_balance' < fund_balance =>
          lastCall'.op = "executeWithdrawal" /\ lastCall'.result = "ok"

\* C27: executeWithdrawal succeeds only if a request with a non-zero amount is
\* pending and at least 3 days have passed since that request; it transfers exactly
\* the requested amount, which does not exceed the fund's balance, and clears the
\* request; a cancelled or executed request can never be executed.
C27_WithdrawalTimelock == []WithdrawalRules /\ [][WithdrawalFrame]_vars

\* half of the fund was requested and paid out after three days
C27_Witness ==
    /\ lastCall.op = "executeWithdrawal" /\ lastCall.result = "ok"
    /\ fund_balance = 50
    /\ withdrawalRequest = NoWithdrawal


-----------------------------------------------------------------------------
(* C28: the state machine of a verifiable-RNG round *)

RoundState(r) == entropyCoinflip.rounds[r].state

\* the steps a round may take, each with the call that takes it
RoundSteps ==
    {<<"None", "requestCoinflip", "Requested">>,
     <<"Requested", "entropyCallback", "Fulfilled">>,
     <<"Fulfilled", "markSettled", "Settled">>,
     <<"Requested", "markExpired", "Expired">>}

RoundMoves ==
    \A r \in RoundIds :
        RoundState(r)' # RoundState(r) =>
            /\ <<RoundState(r), lastCall'.op, RoundState(r)'>> \in RoundSteps
            /\ lastCall'.result = "ok"
            /\ RoundState(r) \notin {"Settled", "Expired", "Failed"}

\* a round that exists cannot be requested again
NoSecondRequest ==
    \A r \in RoundIds :
        RoundState(r) # "None" =>
            \A s \in RngOwners, q \in SequenceNumbers :
                /\ ~Succeeds(requestCoinflip(s, r, "a1", 0, TRUE, q))
                /\ ~ENABLED (requestCoinflip(s, r, "a1", 0, TRUE, q)
                             /\ UNCHANGED engineVars
                             /\ entropyCoinflip' # entropyCoinflip)

\* C28: a round moves only None -> Requested (requestCoinflip), Requested ->
\* Fulfilled (the entropy callback), Fulfilled -> Settled (markSettled) and
\* Requested -> Expired (markExpired); requestCoinflip for a roundId whose state is
\* not None is rejected; no transition leaves Settled, Expired or Failed.
C28_RoundStateMachine == []NoSecondRequest /\ [][RoundMoves]_vars

\* one round was fulfilled and settled, the other expired
C28_Witness ==
    /\ RoundState(1) = "Settled"
    /\ RoundState(2) = "Expired"

-----------------------------------------------------------------------------
(* C29: expiry of a round *)

TtlElapsed(r) ==
    blockTimestamp > entropyCoinflip.rounds[r].requestedAt + entropyCoinflip.roundTtl

\* C29: markExpired may be called by any party once the TTL of a Requested round has
\* elapsed, and marks the round Expired; it is rejected while the TTL has not
\* elapsed or the round is not Requested.
C29_ExpiryByAnyone ==
    \A s \in RngSenders, r \in RoundIds :
        IF RoundState(r) = "Requested" /\ TtlElapsed(r)
        THEN /\ Succeeds(markExpired(s, r))
             /\ OnlyWith(markExpired(s, r), RoundState(r)' = "Expired")
        ELSE ~Succeeds(markExpired(s, r))

\* the same with the casino as the only caller
C29_ExpiryByCasino ==
    \A s \in RngSenders, r \in RoundIds :
        IF s = CoinflipCasino /\ RoundState(r) = "Requested" /\ TtlElapsed(r)
        THEN /\ Succeeds(markExpired(s, r))
             /\ OnlyWith(markExpired(s, r), RoundState(r)' = "Expired")
        ELSE ~Succeeds(markExpired(s, r))

\* a round whose shortened TTL has elapsed
C29_Elapsed ==
    /\ RoundState(1) = "Requested" /\ TtlElapsed(1)
    /\ entropyCoinflip.roundTtl = 30

-----------------------------------------------------------------------------
(* C30: single fulfilment *)

\* a callback for sequence number q with random number x, sent by s, wrote into round r
Wrote(r) == entropyCoinflip'.rounds[r] # entropyCoinflip.rounds[r]

FulfilmentRules ==
    \A s \in RngSenders, q \in SequenceNumbers, x \in RngRandoms :
        /\ ~ENABLED (/\ entropyCallback(s, q, x) /\ UNCHANGED engineVars
                     /\ \E r \in RoundIds :
                           /\ Wrote(r)
                           /\ ~(/\ s = entropyCoinflip.entropy
                                /\ entropyCoinflip.rounds[r].sequenceNumber = q
                                /\ q # 0
                                /\ RoundState(r) = "Requested"
                                /\ entropyCoinflip'.rounds[r] =
                                      [entropyCoinflip.rounds[r] EXCEPT
                                          !.entropyRandom = x,
                                          !.fulfilledAt = blockTimestamp,
                                          !.state = "Fulfilled"]))
        /\ ~ENABLED (/\ entropyCallback(s, q, x) /\ UNCHANGED engineVars
                     /\ \/ Cardinality({r \in RoundIds : Wrote(r)}) > 1
                        \/ [entropyCoinflip EXCEPT !.rounds = 0]'
                              # [entropyCoinflip EXCEPT !.rounds = 0])

\* what the entropy contract delivered stays as it was delivered
FulfilmentKept ==
    \A r \in RoundIds :
        RoundState(r) \in {"Fulfilled", "Settled"} =>
            /\ entropyCoinflip'.rounds[r].entropyRandom
                  = entropyCoinflip.rounds[r].entropyRandom
            /\ entropyCoinflip'.rounds[r].fulfilledAt = entropyCoinflip.rounds[r].fulfilledAt

\* C30: the callback for sequence number s writes only into the round whose request
\* returned s, only when the caller is the configured entropy contract and the
\* round is Requested; later callbacks for the same sequence number change nothing.
C30_SingleFulfilment == []FulfilmentRules /\ [][FulfilmentKept]_vars

\* both rounds were fulfilled, with different numbers, and a callback came last
C30_Witness ==
    /\ RoundState(1) = "Fulfilled" /\ RoundState(2) = "Fulfilled"
    /\ entropyCoinflip.rounds[1].entropyRandom # entropyCoinflip.rounds[2].entropyRandom
    /\ lastCall.op = "entropyCallback" /\ lastCall.result = "ok"

-----------------------------------------------------------------------------
(* C31: commit binding *)

GameOfOp(op) == IF op \in {"slots_commit", "slots_reveal"} THEN "slots" ELSE "coinflip"

\* a commit returned: the commitment in its response is the hash of the seed it stored
CommitBinds ==
    (last' # last /\ last'.op \in CommitOps /\ last'.result = "ok") =>
        LET k == <<last'.agent, GameOfOp(last'.op)>>
        IN  /\ k \notin DOMAIN pendingCommits
            /\ k \in DOMAIN pendingCommits'
            /\ CommitReveal_verify(last'.commitment, pendingCommits'[k].seed)

\* the record of a pending commit is not written again while it is pending
SeedKept ==
    \A k \in DOMAIN pendingCommits \cap DOMAIN pendingCommits' :
        pendingCommits'[k].seed = pendingCommits[k].seed

\* a reveal computed its result: from the pending commit's seed, the agent's seed and
\* the channel's nonce, which the round then increments
RevealUsesCommit ==
    \A c \in inflight' \ inflight :
        c.op \in {"slots_reveal", "coinflip_reveal"} =>
            LET k == <<c.agent, c.game>>
            IN  /\ k \in DOMAIN pendingCommits
                /\ c.proof.casinoSeed = pendingCommits[k].seed
                /\ c.proof.agentSeed \in AgentSeeds
                /\ c.proof.resultHash = sha256(<<pendingCommits[k].seed, c.proof.agentSeed,
                                                channels[c.agent].nonce>>)
                /\ channels'[c.agent].nonce = channels[c.agent].nonce + 1
                /\ c.nonceBefore = channels[c.agent].nonce

\* a reveal returned: its response discloses the proof it computed
RevealDiscloses ==
    \A c \in inflight \ inflight' :
        (c.op \in {"slots_reveal", "coinflip_reveal"} /\ last'.result = "ok") =>
            /\ last'.proof = c.proof
            /\ last'.nonceBefore = c.nonceBefore

\* C31: for every completed slots or coinflip round, the casino seed disclosed in the
\* reveal's proof is the seed generated at that round's commit, so its SHA-256 hash is
\* the commitment the commit returned; the result hash is computed from that seed, the
\* agent's seed and the channel nonce before the round's increment.
C31_CommitBinding ==
    [][CommitBinds /\ SeedKept /\ RevealUsesCommit /\ RevealDiscloses]_vars

\* a second slots round completed with the other casino seed: its proof discloses that
\* seed and the hash over it, the agent's seed and nonce 1, the nonce before the round
C31_Witness ==
    /\ last.op = "slots_reveal" /\ last.result = "ok"
    /\ last.nonceBefore = 1 /\ last.nonceAfter = 2
    /\ last.proof.casinoSeed = "s2"
    /\ last.proof.resultHash = sha256(<<"s2", "a1", 1>>)
    /\ <<last.agent, "slots">> \notin DOMAIN pendingCommits

-----------------------------------------------------------------------------
(* C32: one commit, one round *)

RevealOps == {"slots_reveal", "coinflip_reveal"}

\* a reveal of agent a's pending commit to game g is waiting for the signer
RevealWaiting(a, g) ==
    \E c \in inflight : c.op \in RevealOps /\ c.agent = a /\ c.game = g

\* a reveal of agent a's pending commit to game g ran its round in this step
RevealRan(a, g) ==
    \E c \in inflight' \ inflight : c.op \in RevealOps /\ c.agent = a /\ c.game = g

\* C32: each pending commit is resolved by at most one reveal; a second reveal for the
\* same (agent, game) that arrives while the first is suspended waiting for the signer
\* does not change the channel's balances or nonce a second time.
C32_OneCommitOneRound ==
    [][\A a \in EngineAgents, g \in CommitGames :
            (RevealWaiting(a, g) /\ RevealRan(a, g)) =>
                BalancesOf(channels'[a]) = BalancesOf(channels[a])]_vars

-----------------------------------------------------------------------------
(* C33: the response matches its signature *)

\* the actions whose response carries agentBalance, casinoBalance, nonce and signature
AnsweredOps == {"slots_reveal", "coinflip_reveal", "lotto_buy", "lotto_claim",
                "close_channel"}

\* C33: in every response to a mutating action (slots reveal, coinflip reveal, lotto
\* buy, lotto claim, close_channel) the returned signature is the house's signature
\* over exactly the agentBalance, casinoBalance and nonce returned in that response,
\* also when another action on the same channel ran while the first was suspended in
\* signing.
C33_ResponseMatchesSignature ==
    (last.op \in AnsweredOps /\ last.result = "ok") =>
        last.signature = signState(last.agent, last.response.agentBalance,
                                   last.response.casinoBalance, last.response.nonce)

\* the same when every request has its signer's answer before the next one starts
C33_OneAtATime ==
    (last.op \in AnsweredOps /\ last.result = "ok") =>
        /\ last.signature = signState(last.agent, last.response.agentBalance,
                                      last.response.casinoBalance, last.response.nonce)
        /\ last.response.nonce = last.nonceAfter

-----------------------------------------------------------------------------
(* C34: close is final *)

\* closeChannel has read agent a's channel and waits for the signer
CloseWaiting(a) ==
    \E c \in inflight : c.op = "close_channel" /\ c.agent = a /\ c.detached = NoBalances

\* a game action of agent a was accepted in this step: a commit was stored or a round,
\* purchase or claim ran on a's channel
GameActionAccepted(a) ==
    \/ \E c \in inflight' \ inflight : c.agent = a /\ c.op # "close_channel"
    \/ \E g \in CommitGames : /\ <<a, g>> \notin DOMAIN pendingCommits
                              /\ <<a, g>> \in DOMAIN pendingCommits'

\* closeChannel returned: no state signed for that channel instance has a higher nonce
\* than the one it returns, and none is still to be signed
CloseReturnsLatest ==
    \A c \in inflight \ inflight' :
        (c.op = "close_channel" /\ last'.result = "ok") =>
            /\ \A st \in signedStates' :
                    (st.agent = c.agent /\ st.inst = c.inst) => st.nonce <= c.sig.nonce
            /\ \A c2 \in inflight' :
                    (c2.agent = c.agent /\ c2.inst = c.inst) => c2.sig.nonce <= c.sig.nonce

\* C34: the signed state returned by CloseChannel carries the highest nonce of all
\* signed states ever produced for that channel instance; no game action on the
\* channel is accepted between the moment CloseChannel reads the channel state and the
\* moment the channel is removed from the table.
C34_CloseIsFinal ==
    [][/\ CloseReturnsLatest
       /\ \A a \in EngineAgents : CloseWaiting(a) => ~GameActionAccepted(a)]_vars

\* the first half alone
C34_CloseReturnsLatest == [][CloseReturnsLatest]_vars
\* the second half alone
C34_NoActionDuringClose ==
    [][\A a \in EngineAgents : CloseWaiting(a) => ~GameActionAccepted(a)]_vars

-----------------------------------------------------------------------------
(* C35: pending commits do not outlive the channel *)

\* closeChannel(a) has returned its signed state and no request of a is in flight
ClosedQuietly(a) ==
    /\ last.op = "close_channel" /\ last.agent = a /\ last.result = "ok"
    /\ \A c \in inflight : c.agent # a

\* C35: after a successful CloseChannel(agent) no pending commit keyed by that agent
\* remains, so a commit made in one channel instance is never resolved by a reveal
\* against a later channel instance opened by the same agent.
C35_CommitsEndWithChannel ==
    \A a \in EngineAgents :
        ClosedQuietly(a) => \A g \in CommitGames : <<a, g>> \notin DOMAIN pendingCommits

-----------------------------------------------------------------------------
(* C36: no replay across channel instances *)

\* the states the house signed for agent a's channel number i; in SpecLife the engine's
\* i-th channel object is opened for the i-th on-chain channel
SignedForInstance(a, i) == {s \in signedStates : s.agent = a /\ s.inst = i}

\* the contract accepted a house-signed state for agent a's channel in this step
AcceptedState(a) ==
    /\ lastCall' # lastCall
    /\ lastCall'.op \in SignedOps
    /\ lastCall'.agent = a
    /\ lastCall'.result = "ok"

\* C36: a house-signed state produced for one channel instance of an agent is never
\* accepted by closeChannel, startChallenge or counterChallenge for a later channel
\* instance that the same agent opened after the first one was settled.
C36_NoReplayAcrossInstances ==
    [][\A a \in EngineAgents :
            AcceptedState(a) =>
                \E s \in SignedForInstance(a, opened) :
                    lastCall'.st = St(s.agentBalance, s.casinoBalance, s.nonce)]_vars

-----------------------------------------------------------------------------
(* C37: settlement at the latest state *)

\* the highest nonce the house signed for agent a's channel number i
HighestSigned(a, i) ==
    IF SignedForInstance(a, i) = {} THEN 0
    ELSE CHOOSE n \in {s.nonce : s \in SignedForInstance(a, i)} :
            \A s \in SignedForInstance(a, i) : s.nonce <= n

\* agent a's channel was settled in this step
Settled(a) == cm_channels[a].state # "None" /\ cm_channels'[a].state = "None"

\* C37: an on-chain channel is never settled at a house-signed state whose nonce is
\* lower than the highest nonce the house signed for that channel instance, unless a
\* full challenge period passed in which that higher state could have been presented
\* with counterChallenge.
C37_SettlementAtLatestState ==
    [][\A a \in EngineAgents :
            /\ (Settled(a) /\ lastCall'.op = "closeChannel") =>
                    lastCall'.st.nonce >= HighestSigned(a, opened)
            /\ (Settled(a) /\ lastCall'.op = "resolveChallenge") =>
                    \/ cm_channels[a].nonce >= HighestSigned(a, opened)
                    \/ blockTimestamp >= cm_channels[a].disputeDeadline]_vars

\* the part of C37 about disputes: a challenge is resolved at a lower nonce only after
\* its challenge period
C37_Disputes ==
    [][\A a \in EngineAgents :
            (Settled(a) /\ lastCall'.op = "resolveChallenge") =>
                \/ cm_channels[a].nonce >= HighestSigned(a, opened)
                \/ blockTimestamp >= cm_channels[a].disputeDeadline]_vars

-----------------------------------------------------------------------------
(* C38: no exit at the deposits after play *)

\* C38: once the engine has resolved at least one round for a channel (a house-signed
\* state with nonce >= 1 exists for it), the on-chain channel cannot be settled at the
\* original deposits through emergencyExit.
C38_NoExitAfterPlay ==
    [][\A a \in EngineAgents :
            (Settled(a) /\ lastCall'.op = "emergencyExit") =>
                HighestSigned(a, opened) = 0]_vars

-----------------------------------------------------------------------------
(* C39: locked collateral equals live deposits *)

\* C39: after any sequence of openChannel, fundCasinoSide, closeChannel,
\* startChallenge, counterChallenge, resolveChallenge and emergencyExit, the
\* BankrollManager's totalLocked equals the sum of casinoDeposit over all channels in
\* state Open or Disputed, and it is 0 when no channel is live.
C39_LockedEqualsLiveDeposits ==
    /\ totalLocked = SumCasinoDeposit(Live)
    /\ Live = {} => totalLocked = 0

\* both agents' channels are funded and locked together, one of them under dispute
C39_Witness ==
    /\ Live = Agents
    /\ \A a \in Agents : cm_channels[a].casinoDeposit = 50
    /\ \E a \in Agents : cm_channels[a].state = "Disputed"
    /\ totalLocked = 100

\* a channel was settled and its collateral released while the other stays locked
C39_Released ==
    /\ lastCall.op \in SettlingOps /\ lastCall.result = "ok"
    /\ lastSettle.casinoDeposit = 50
    /\ Cardinality(Live) = 1
    /\ totalLocked = 50

-----------------------------------------------------------------------------
(* C40: escrow solvency and single payout *)

\* what the ChannelManager owes: the deposits of the live channels and the payouts
\* that wait to be withdrawn
Owed == SumDeposits(Live) + SumPending(Accounts)

\* a settlement: the channel's deposits leave the escrow once, as transfers or as
\* pending amounts, and that channel instance is gone (the slot is empty, or holds the
\* channel the agent's account opened while it was paid)
PaidOnce ==
    (lastCall' # lastCall /\ lastCall'.op \in SettlingOps /\ lastCall'.result = "ok") =>
        LET a == lastCall'.agent
            x == lastSettle'
        IN  /\ cm_channels[a].state \in {"Open", "Disputed"}
            /\ x.agentPayout + x.casinoPayout
                  = cm_channels[a].agentDeposit + cm_channels[a].casinoDeposit
            /\ x.sentAgent + x.creditedAgent = x.agentPayout
            /\ x.sentCasino + x.creditedCasino + x.sentInsurance = x.casinoPayout
            /\ \/ cm_channels'[a] = NoChannel /\ opened' = opened
               \/ /\ opened' = opened + 1
                  /\ cm_channels'[a].state = "Open"
                  /\ cm_channels'[a].casinoDeposit = 0
                  /\ cm_channels'[a].nonce = 0
            /\ cm_balance - cm_balance' =
                  x.sentAgent + x.sentCasino + x.sentInsurance
                    - (IF opened' = opened THEN 0 ELSE cm_channels'[a].agentDeposit)
            /\ \A b \in Agents \ {a} : cm_channels'[b] = cm_channels[b]

\* ether leaves the escrow only in a settlement or in a withdrawal of a pending amount
PaidOnlyWhenDue ==
    cm_balance' < cm_balance =>
        /\ lastCall'.result = "ok"
        /\ \/ lastCall'.op \in SettlingOps
           \/ /\ lastCall'.op = "withdrawPending"
              /\ cm_balance - cm_balance' = pendingWithdrawals[lastCall'.sender]
              /\ pendingWithdrawals'[lastCall'.sender] = 0

\* C40: after any sequence of on-chain operations, including a payee that re-enters
\* the contract during its payout, the value held by the settlement contract is at
\* least the sum of agentDeposit + casinoDeposit over live channels plus the sum of
\* pendingWithdrawals, and each channel instance is paid out at most once.
C40_EscrowSolvency ==
    /\ [](cm_balance >= Owed)
    /\ [][PaidOnce /\ PaidOnlyWhenDue]_vars

\* an agent's account opened a new channel from inside the payout of its settled one:
\* the old instance was paid in full, the new deposit is in escrow
C40_Witness ==
    /\ lastCall.op \in SettlingOps /\ lastCall.result = "ok"
    /\ cm_channels[lastCall.agent].state = "Open"
    /\ cm_channels[lastCall.agent].casinoDeposit = 0
    /\ lastSettle.agent = lastCall.agent
    /\ lastSettle.sentAgent = lastSettle.agentPayout
    /\ lastSettle.casinoDeposit = 50
    /\ opened = 2
    /\ cm_balance = Owed

====
